---- MODULE Spec2Model ----
(***************************************************************************)
(* Working copy of a Kart Table Dataset V3 (kart-js).                      *)
(*                                                                         *)
(* The model follows src/lib/table-dataset-v3/WorkingFeatureCollection.ts  *)
(* (WorkingFeatureCollection and TrackedChanges), the Emitter it extends   *)
(* and the parts of TableDatasetV3 and Feature it reads.                   *)
(*                                                                         *)
(* JavaScript values are modelled as follows.                              *)
(*   - an object with string keys is a function whose DOMAIN is its set of *)
(*     own keys ("k in obj" is k \in DOMAIN obj);                          *)
(*   - undefined and null property values are the strings Undefined and    *)
(*     Null; an absent feature, geometry or tracked change is the record   *)
(*     NoFeature, NullGeometry or NoChange;                                *)
(*   - a Map is the sequence of its [key, value] entries in insertion      *)
(*     order, a Set the sequence of its members in insertion order.        *)
(***************************************************************************)
EXTENDS Integers, Sequences, FiniteSets, TLC

\* ------------------------------------------------------------------ bounds
\* number of calls made on the working copy in one behaviour
MaxCalls == 4
\* number of distinct listener functions a caller registers
MaxListeners == 1
\* number of things a caller tries on an object toGeoJSON() returned
MaxAttempts == 2
\* number of changes callers make through Data.get in one behaviour
MaxChanges == 3
\* largest number of levels of a path structure
MaxLevels == 3
MaxLegendFiles == 2
MaxSelects == 4
MaxWalkLevels == 2
MaxNodes == 2

\* ------------------------------------------------------------------ values
Undefined == "undefined"
Null == "null"
\* a text value longer than the column's `length`: getText reports ok:false
TooLong == "too-long"
\* a primary-key value no row of the dataset has, as passed in properties
NewPk == "9"
\* a null geometry, the result of get() when it returns undefined, and the
\* result of Map.get for a missing key
NullGeometry == [type |-> Null]
NoFeature == [id |-> Undefined]
NoChange == [type |-> Undefined]

\* encoded IDs: X is a row of the dataset with a geometry, Z a row of the
\* dataset whose geometry column is null, N is not in the dataset
Eids == {"X", "Z", "N"}
PropertyKeys == {"a", "b"}
GoodValues == {"v1", "v2"}
GeometryTypes == {"Point", "Polygon"}
Geometries == {[type |-> "Point", coordinates |-> 1],
               [type |-> "Point", coordinates |-> 2],
               [type |-> "Polygon", coordinates |-> 1]}
Listeners == 1..MaxListeners
Events == {"feature:added", "feature:deleted", "feature:updated", "feature"}

\* ------------------------------------------------------------------ schema
\* schema.json: the primary key, a geometry column and two text columns
SchemaWith(geometryColumn) ==
  << [name |-> "id", dataType |-> "integer", primaryKeyIndex |-> 0],
     [name |-> geometryColumn, dataType |-> "geometry", primaryKeyIndex |-> -1],
     [name |-> "a", dataType |-> "text", primaryKeyIndex |-> -1],
     [name |-> "b", dataType |-> "text", primaryKeyIndex |-> -1] >>

\* the primary-key value PathStructure encodes as each encoded ID
PkOf(eid) == CASE eid = "X" -> 1 [] eid = "Z" -> 2 [] OTHER -> 3

\* the rows under .table-dataset/feature/, by encoded ID
FeatureFiles ==
  [eid \in {"X", "Z"} |->
     [ids |-> [id |-> PkOf(eid)],
      geometry |-> IF eid = "X" THEN [type |-> "Point", coordinates |-> 1] ELSE NullGeometry,
      properties |-> [k \in PropertyKeys |-> "v1"]]]

VARIABLES
  schema,          \* TableDatasetV3.schema
  featureDir,      \* TableDatasetV3: the feature files the dataset reads
  cache,           \* TableDatasetV3.cache.geoJSON
  geometryType,    \* WorkingFeatureCollection.geometryType
  trackedChanges,  \* TrackedChanges.trackedChanges (a Map)
  listeners,       \* Emitter._listeners: event -> Set of listeners
  delivered,       \* the listener invocations made by the last call, in order
  lastCall,        \* the last call made and how it ended
  calls,           \* number of calls made so far
  returned,        \* the object graph toGeoJSON() returns, and what a caller
                   \* does to it
  kart,            \* a Kart repository: Data.datatsets, the changes callers
                   \* made through Data.get, and what Diff.toDiff returned
  encodedId,       \* a PathStructure, primary-key values and what getEid gave
  legendDir,       \* the files of meta/legend/ and the legends loaded from them
  projection,      \* a raw feature, the current schema and what toObject gave
  spatialIndex,    \* the files of the spatial index and the selectIntersection calls in progress
  walk,            \* a feature directory tree and what terminalBranchNodes yielded
  accessor,        \* a column, a value of a feature and what getInteger returned
  emitter          \* the emitter while its listeners run (stepwise emission)

\* the working copy, its dataset and its emitter
workingCopy == <<schema, featureDir, cache, geometryType, trackedChanges,
                 listeners, delivered, lastCall, calls>>

vars == <<workingCopy, returned, kart, encodedId, legendDir, projection, spatialIndex, walk, accessor, emitter>>

\* ------------------------------------------------------------ JavaScript Map
RECURSIVE MapIndex(_, _, _)
MapIndex(m, key, i) ==
  IF i > Len(m) THEN 0
  ELSE IF m[i].key = key THEN i ELSE MapIndex(m, key, i + 1)

MapHas(m, key) == MapIndex(m, key, 1) # 0

MapGet(m, key) ==
  IF MapHas(m, key) THEN m[MapIndex(m, key, 1)].value ELSE NoChange

\* a set that adds an entry whether or not the key has one
MapSetAppends(m, key, value) == Append(m, [key |-> key, value |-> value])

\* Map.prototype.set: an existing key keeps its position
MapSet(m, key, value) ==
  IF MapHas(m, key)
  THEN [m EXCEPT ![MapIndex(m, key, 1)] = [key |-> key, value |-> value]]
  ELSE Append(m, [key |-> key, value |-> value])

MapDelete(m, key) ==
  IF MapHas(m, key)
  THEN LET i == MapIndex(m, key, 1)
       IN SubSeq(m, 1, i - 1) \o SubSeq(m, i + 1, Len(m))
  ELSE m

MapKeys(m) == {m[i].key : i \in 1..Len(m)}

\* { ...a, ...b }
Spread(a, b) ==
  [k \in (DOMAIN a) \cup (DOMAIN b) |-> IF k \in DOMAIN b THEN b[k] ELSE a[k]]

\* obj with the keys in ks deleted
Without(obj, ks) == [k \in (DOMAIN obj) \ ks |-> obj[k]]

\* ------------------------------------------------------------- the dataset
\* TableDatasetV3.has
DatasetHas(fd, eid) == eid \in DOMAIN fd

\* Feature.toGeoJSON: null when the row has no geometry
FeatureToGeoJSON(eid, row) ==
  IF row.geometry = NullGeometry
  THEN NoFeature
  ELSE [id |-> eid, ids |-> row.ids, geometry |-> row.geometry,
        properties |-> row.properties]

\* this.dataset.get(featureId)?.toGeoJSON() ?? undefined
OriginalFeature(fd, eid) ==
  IF DatasetHas(fd, eid) THEN FeatureToGeoJSON(eid, fd[eid]) ELSE NoFeature

\* TableDatasetV3.toGeoJSON: the features of all rows, without the nulls
RECURSIVE FeaturesOf(_, _)
FeaturesOf(fd, eids) ==
  IF eids = {} THEN << >>
  ELSE LET e == CHOOSE x \in eids : \A y \in eids : PkOf(x) <= PkOf(y)
           rest == FeaturesOf(fd, eids \ {e})
       IN IF FeatureToGeoJSON(e, fd[e]) = NoFeature THEN rest
          ELSE <<FeatureToGeoJSON(e, fd[e])>> \o rest

DatasetToGeoJSON(fd) == FeaturesOf(fd, DOMAIN fd)

\* ------------------------------------------------------ schema compliance
\* Feature.getText on a property column
GetTextOk(value) == value # TooLong

\* checkFeatureCompliance: Feature.fromGeoJSON validates every schema column;
\* a column the feature lacks reads as null, which is valid
CheckFeatureCompliance(feature) ==
  \A k \in DOMAIN feature.properties :
     k \in PropertyKeys => GetTextOk(feature.properties[k])


\* isKartEnabledFeature: a GeoJSON feature that has an id
IsKartEnabledFeature(feature) == feature.id # Undefined /\ feature.id # Null

\* stringify(a) === stringify(b): devalue.stringify is injective on the
\* values of the model (strings, null, undefined and objects whose keys are
\* written in the same order)
StringifyEqual(a, b) == a = b

\* ---------------------------------------------------------- TrackedChanges
\* setDelete without the case of a tracked insert: a Delete is recorded
SetDeleteAlwaysRecords(tc, key) == MapSet(tc, key, [type |-> "delete"])

\* setDelete that removes a tracked update as it removes a tracked insert
SetDeleteRemovesUpdate(tc, key) ==
  IF ~MapHas(tc, key) THEN MapSet(tc, key, [type |-> "delete"])
  ELSE IF MapGet(tc, key).type = "delete" THEN tc
  ELSE MapDelete(tc, key)

\* TrackedChanges.setDelete
SetDelete(tc, key) ==
  IF ~MapHas(tc, key) THEN MapSet(tc, key, [type |-> "delete"])
  ELSE IF MapGet(tc, key).type = "delete" THEN tc
  ELSE IF MapGet(tc, key).type = "insert" THEN MapDelete(tc, key)
  ELSE MapSet(tc, key, [type |-> "delete"])

\* TrackedChanges.setInsert
SetInsert(tc, key, feature) ==
  MapSet(tc, key, [type |-> "insert", feature |-> feature])

\* TrackedChanges.setGeometry
SetGeometry(tc, key, geometry) ==
  IF ~MapHas(tc, key)
  THEN MapSet(tc, key, [type |-> "update", geometry |-> geometry])
  ELSE LET current == MapGet(tc, key)
       IN IF current.type = "update" /\ "properties" \in DOMAIN current
          THEN MapSet(tc, key, [type |-> "update",
                                properties |-> current.properties,
                                geometry |-> geometry])
          ELSE MapSet(tc, key, [type |-> "update", geometry |-> geometry])

\* setProperties without the merge with a tracked geometry
SetPropertiesReplaces(tc, key, properties) ==
  MapSet(tc, key, [type |-> "update", properties |-> properties])

\* TrackedChanges.setProperties
SetProperties(tc, key, properties) ==
  IF ~MapHas(tc, key)
  THEN MapSet(tc, key, [type |-> "update", properties |-> properties])
  ELSE LET current == MapGet(tc, key)
       IN IF current.type = "update" /\ "geometry" \in DOMAIN current
          THEN MapSet(tc, key, [type |-> "update",
                                properties |-> properties,
                                geometry |-> current.geometry])
          ELSE MapSet(tc, key, [type |-> "update", properties |-> properties])

\* ------------------------------------------------ WorkingFeatureCollection
\* WorkingFeatureCollection.get; NoFeature stands for undefined
Get(fd, tc, featureId) ==
  LET originalFeature == OriginalFeature(fd, featureId)
      change == MapGet(tc, featureId)
  IN IF MapHas(tc, featureId) /\ change.type = "delete"
     THEN NoFeature
     ELSE IF /\ MapHas(tc, featureId)
             /\ change.type = "insert"
             /\ IsKartEnabledFeature(change.feature)
             /\ CheckFeatureCompliance(change.feature)
     THEN change.feature
     ELSE IF /\ MapHas(tc, featureId)
             /\ change.type = "update"
             /\ originalFeature # NoFeature
     THEN [originalFeature EXCEPT
             !.geometry = IF "geometry" \in DOMAIN change
                          THEN change.geometry ELSE @,
             !.properties = IF "properties" \in DOMAIN change
                            THEN Spread(@, change.properties) ELSE @]
     ELSE IF originalFeature # NoFeature /\ CheckFeatureCompliance(originalFeature)
     THEN originalFeature
     ELSE NoFeature

\* WorkingFeatureCollection.has
Has(fd, tc, featureId) == Get(fd, tc, featureId) # NoFeature

\* WorkingFeatureCollection.isDirty
IsDirty(tc) == Len(tc) > 0

\* What a call on the working copy does: whether it returned or threw, the
\* tracked changes it leaves and the events it emits, in order.
Threw(tc) == [ok |-> FALSE, trackedChanges |-> tc, emits |-> << >>]
Returned(tc, emits) == [ok |-> TRUE, trackedChanges |-> tc, emits |-> emits]

\* the properties updateProperties passes to setProperties: the merge with
\* the current view, without undefined values and without the values that
\* equal the original feature's
NewProperties(currentFeature, originalFeature, properties, merge) ==
  LET merged == IF merge THEN Spread(currentFeature.properties, properties)
                ELSE properties
      defined == Without(merged, {k \in DOMAIN merged : merged[k] = Undefined})
  IN Without(defined,
             {k \in DOMAIN defined :
                /\ k \in DOMAIN originalFeature.properties
                /\ StringifyEqual(defined[k], originalFeature.properties[k])})

\* updateProperties: "only update if there are changes"
HasChanges(newProperties, currentFeature) ==
  \/ Cardinality(DOMAIN newProperties) # Cardinality(DOMAIN currentFeature.properties)
  \/ ~StringifyEqual(currentFeature.properties, newProperties)

\* WorkingFeatureCollection.updateProperties
UpdateProperties(fd, tc, featureId, properties, merge) ==
  IF ~Has(fd, tc, featureId) THEN Threw(tc)
  ELSE
    LET currentFeature == Get(fd, tc, featureId)
        originalFeature == OriginalFeature(fd, featureId)
    IN IF originalFeature = NoFeature THEN Threw(tc)
       ELSE
         LET newProperties ==
               NewProperties(currentFeature, originalFeature, properties, merge)
         IN IF ~CheckFeatureCompliance(
                   [currentFeature EXCEPT !.properties = newProperties])
            THEN Threw(tc)
            ELSE IF HasChanges(newProperties, currentFeature)
            THEN Returned(SetProperties(tc, featureId, newProperties),
                          <<"feature:updated", "feature">>)
            ELSE Returned(tc, << >>)

\* updateGeometry recording the geometry before it compares the types
UpdateGeometryRecordsFirst(fd, tc, gt, featureId, geometry) ==
  IF ~Has(fd, tc, featureId) THEN Threw(tc)
  ELSE IF geometry.type # gt THEN Threw(SetGeometry(tc, featureId, geometry))
  ELSE Returned(SetGeometry(tc, featureId, geometry),
                <<"feature:updated", "feature">>)

\* WorkingFeatureCollection.updateGeometry
UpdateGeometry(fd, tc, gt, featureId, geometry) ==
  IF ~Has(fd, tc, featureId) THEN Threw(tc)
  ELSE IF geometry.type # gt THEN Threw(tc)
  ELSE Returned(SetGeometry(tc, featureId, geometry),
                <<"feature:updated", "feature">>)

\* WorkingFeatureCollection.add
Add(fd, tc, gt, feature) ==
  IF feature.id = Undefined \/ feature.id = Null THEN Threw(tc)
  ELSE IF Get(fd, tc, feature.id) # NoFeature THEN Threw(tc)
  ELSE IF feature.geometry.type # gt THEN Threw(tc)
  ELSE IF ~CheckFeatureCompliance(feature) THEN Threw(tc)
  ELSE Returned(SetInsert(tc, feature.id, feature),
                <<"feature:added", "feature">>)

\* delete without the union event
DeleteWithoutUnionEvent(fd, tc, featureId) ==
  IF ~Has(fd, tc, featureId) THEN Threw(tc)
  ELSE Returned(SetDelete(tc, featureId), <<"feature:deleted">>)

\* WorkingFeatureCollection.delete
Delete(fd, tc, featureId) ==
  IF ~Has(fd, tc, featureId) THEN Threw(tc)
  ELSE Returned(SetDelete(tc, featureId), <<"feature:deleted", "feature">>)


\* ------------------------------------------------------------- toGeoJSON
RECURSIVE FeatureIndex(_, _, _)
\* datasetGeoJSON.features.findIndex((f) => f._kart.eid === eid); 0 for -1
FeatureIndex(features, eid, i) ==
  IF i > Len(features) THEN 0
  ELSE IF features[i].id = eid THEN i ELSE FeatureIndex(features, eid, i + 1)

\* the update branch of toGeoJSON: the geometry is replaced, every property
\* of the change is assigned, an undefined one is deleted
ApplyUpdate(existingFeature, change) ==
  LET withGeometry ==
        IF "geometry" \in DOMAIN change
        THEN [existingFeature EXCEPT !.geometry = change.geometry]
        ELSE existingFeature
  IN IF "properties" \in DOMAIN change
     THEN [withGeometry EXCEPT !.properties =
             Without(Spread(@, change.properties),
                     {k \in DOMAIN change.properties :
                        change.properties[k] = Undefined})]
     ELSE withGeometry

RECURSIVE ApplyChanges(_, _, _)
\* the loop of toGeoJSON over the tracked changes, from entry i on
ApplyChanges(features, tc, i) ==
  IF i > Len(tc) THEN [ok |-> TRUE, features |-> features]
  ELSE
    LET eid == tc[i].key
        change == tc[i].value
        featureIndex == FeatureIndex(features, eid, 1)
    IN CASE change.type = "delete" ->
              IF featureIndex = 0 THEN [ok |-> FALSE, features |-> features]
              ELSE ApplyChanges(SubSeq(features, 1, featureIndex - 1)
                                  \o SubSeq(features, featureIndex + 1, Len(features)),
                                tc, i + 1)
         [] change.type = "insert" ->
              IF featureIndex # 0 THEN [ok |-> FALSE, features |-> features]
              ELSE ApplyChanges(Append(features, change.feature), tc, i + 1)
         [] OTHER ->
              IF featureIndex = 0 THEN [ok |-> FALSE, features |-> features]
              ELSE ApplyChanges(
                     [features EXCEPT ![featureIndex] = ApplyUpdate(@, change)],
                     tc, i + 1)

\* toGeoJSON that applies the changes to the dataset's cached collection
\* itself, not to a copy of it
ToGeoJSONInPlace(cached, tc) ==
  [ok |-> ApplyChanges(cached, tc, 1).ok,
   features |-> ApplyChanges(cached, tc, 1).features,
   cached |-> ApplyChanges(cached, tc, 1).features]

\* WorkingFeatureCollection.toGeoJSON on the dataset's cached collection:
\* the changes are applied to a copy (parse(stringify(...))), so the cached
\* collection is what it was
ToGeoJSON(cached, tc) ==
  [ok |-> ApplyChanges(cached, tc, 1).ok,
   features |-> ApplyChanges(cached, tc, 1).features,
   cached |-> cached]

\* ------------------------------------------------------------------- diff
RECURSIVE SelectNames(_, _, _)
\* dataset.schema.filter(test).map(({ name }) => name), kind by kind
SelectNames(entries, kind, i) ==
  IF i > Len(entries) THEN << >>
  ELSE LET e == entries[i]
           keep == IF kind = "primary" THEN e.primaryKeyIndex >= 0
                   ELSE e.dataType = "geometry"
       IN (IF keep THEN <<e.name>> ELSE << >>) \o SelectNames(entries, kind, i + 1)

SeqToSet(q) == {q[i] : i \in 1..Len(q)}

\* the constructor's primaryKeys
primaryKeys == SelectNames(schema, "primary", 1)

\* the constructor's primaryGeometryKey
primaryGeometryKey ==
  LET geometryColumns == SelectNames(schema, "geometry", 1)
  IN IF "geom" \in SeqToSet(geometryColumns) THEN "geometry"
     ELSE geometryColumns[1]

SchemaNames == {schema[i].name : i \in 1..Len(schema)}

\* the order in which Object.keys lists the property keys of a feature
PropertyKeyOrder == <<"a", "b", "id">>

RECURSIVE DataIndex(_, _, _)
DataIndex(data, key, i) ==
  IF i > Len(data) THEN 0
  ELSE IF data[i].key = key THEN i ELSE DataIndex(data, key, i + 1)

\* data[key] === undefined
DataUndefined(data, key) ==
  \/ DataIndex(data, key, 1) = 0
  \/ data[DataIndex(data, key, 1)].value = [value |-> Undefined]

\* data[key] = value: an existing key keeps its place
DataSet(data, key, value) ==
  IF DataIndex(data, key, 1) # 0
  THEN [data EXCEPT ![DataIndex(data, key, 1)] = [key |-> key, value |-> value]]
  ELSE Append(data, [key |-> key, value |-> value])

RECURSIVE PrimaryKeyData(_, _, _)
\* for (const key of this.primaryKeys) data[key] = ids[key] (?? null)
PrimaryKeyData(data, ids, i) ==
  IF i > Len(primaryKeys) THEN data
  ELSE PrimaryKeyData(
         DataSet(data, primaryKeys[i],
                 IF primaryKeys[i] \in DOMAIN ids
                 THEN [pk |-> ids[primaryKeys[i]]] ELSE [value |-> Null]),
         ids, i + 1)

RECURSIVE PropertyData(_, _, _)
\* the remaining properties, without overwriting keys already emitted
PropertyData(data, properties, i) ==
  IF i > Len(PropertyKeyOrder) THEN data
  ELSE LET key == PropertyKeyOrder[i]
       IN IF key \in DOMAIN properties /\ DataUndefined(data, key)
          THEN PropertyData(DataSet(data, key, [value |-> properties[key]]),
                            properties, i + 1)
          ELSE PropertyData(data, properties, i + 1)

\* the change the diff lists for one tracked entry; ok is FALSE when it throws
DiffChange(fd, eid, change) ==
  CASE change.type = "insert" ->
         [ok |-> TRUE, op |-> "++",
          data |-> PropertyData(
                     DataSet(PrimaryKeyData(<< >>, change.feature.ids, 1),
                             primaryGeometryKey,
                             [geometry |-> change.feature.geometry]),
                     change.feature.properties, 1)]
    [] change.type = "delete" ->
         IF ~DatasetHas(fd, eid) THEN [ok |-> FALSE, op |-> "--", data |-> << >>]
         ELSE [ok |-> TRUE, op |-> "--", data |-> PrimaryKeyData(<< >>, fd[eid].ids, 1)]
    [] OTHER ->
         IF ~DatasetHas(fd, eid) THEN [ok |-> FALSE, op |-> "+", data |-> << >>]
         ELSE IF "geometry" \in DOMAIN change /\ primaryGeometryKey \notin SchemaNames
         THEN [ok |-> FALSE, op |-> "+", data |-> << >>]
         ELSE IF /\ "properties" \in DOMAIN change
                 /\ \E k \in DOMAIN change.properties : k \notin SchemaNames
         THEN [ok |-> FALSE, op |-> "+", data |-> << >>]
         ELSE
           LET keys == PrimaryKeyData(<< >>, fd[eid].ids, 1)
               withGeometry ==
                 IF "geometry" \in DOMAIN change
                 THEN DataSet(keys, primaryGeometryKey, [geometry |-> change.geometry])
                 ELSE keys
           IN [ok |-> TRUE, op |-> "+",
               data |-> IF "properties" \in DOMAIN change
                        THEN PropertyData(withGeometry, change.properties, 1)
                        ELSE withGeometry]

\* WorkingFeatureCollection.diff: the dataset's entry under
\* 'kart.diff/v1+hexwkb' is {} when nothing is tracked and { feature: [...] }
\* otherwise; 'kart.patch/v1' is present only in the second case
Diff(fd, tc) ==
  IF Len(tc) = 0
  THEN [ok |-> TRUE, patch |-> FALSE, keys |-> {}, feature |-> << >>]
  ELSE [ok |-> \A i \in 1..Len(tc) : DiffChange(fd, tc[i].key, tc[i].value).ok,
        patch |-> TRUE, keys |-> {"feature"},
        feature |-> [i \in 1..Len(tc) |->
                       [op |-> DiffChange(fd, tc[i].key, tc[i].value).op,
                        data |-> DiffChange(fd, tc[i].key, tc[i].value).data]]]


\* ---------------------------------------------------------------- Emitter
\* Emitter.on: the listeners of an event are a Set
On(ls, event, listener) ==
  IF listener \in SeqToSet(ls[event]) THEN ls
  ELSE [ls EXCEPT ![event] = Append(@, listener)]

\* Emitter.off(event, listener)
Off(ls, event, listener) ==
  [ls EXCEPT ![event] = SelectSeq(@, LAMBDA l : l # listener)]

\* Emitter.off(): all listeners of all events are removed
OffAll(ls) == [e \in Events |-> << >>]

\* Emitter.emit: every listener of the event is invoked once, in order
Emit(ls, event) ==
  [i \in 1..Len(ls[event]) |-> [event |-> event, listener |-> ls[event][i]]]

RECURSIVE EmitAll(_, _, _)
\* the listener invocations of the super.emit calls of one operation
EmitAll(ls, emits, i) ==
  IF i > Len(emits) THEN << >>
  ELSE Emit(ls, emits[i]) \o EmitAll(ls, emits, i + 1)

\* ------------------------------------------------------------------ inputs
NoProperties == [k \in {} |-> Undefined]

\* the features a caller adds: compliant ones, and one with a text too long
AddInputs ==
  {[id |-> e, ids |-> [id |-> PkOf(e)], geometry |-> g,
    properties |-> [a |-> "v2", b |-> "v1"]] : e \in Eids, g \in Geometries}
  \cup {[id |-> "N", ids |-> [id |-> PkOf("N")],
         geometry |-> [type |-> "Point", coordinates |-> 1],
         properties |-> [a |-> TooLong, b |-> "v1"]]}

\* the properties a caller passes to updateProperties; the last one names
\* the primary-key column
UpdateInputs ==
  {NoProperties, [k \in {"a"} |-> "v1"], [k \in {"a"} |-> "v2"],
   [k \in {"b"} |-> "v2"], [k \in PropertyKeys |-> "v2"],
   [k \in {"a"} |-> Undefined], [k \in {"a"} |-> TooLong],
   [k \in {"id"} |-> NewPk]}

\* a call: its arguments, how it ended, and what the working copy held for
\* the encoded ID when it was made: the tracked change (before), the view
\* get() gave (current) and isDirty (dirty)
Call(op, eid, ok, feature, geometry, properties, merge) ==
  [op |-> op, eid |-> eid, ok |-> ok, feature |-> feature,
   geometry |-> geometry, properties |-> properties, merge |-> merge,
   before |-> MapGet(trackedChanges, eid),
   current |-> Get(featureDir, trackedChanges, eid),
   dirty |-> IsDirty(trackedChanges)]

\* ------------------------------------------------------------------ state
\* nothing returned by toGeoJSON() is being looked at
NothingReturned == [stage |-> "none"]
NoSpatialIndex == [stage |-> "none"]
NoWalk == [stage |-> "none"]
NoAccessor == [stage |-> "none"]
NoEmitter == [stage |-> "none"]

\* the parts of the state the calls on the working copy leave alone
NoRepository == [stage |-> "none"]

NoEncodedId == [stage |-> "none"]
NoLegendDir == [stage |-> "none"]
NoProjection == [stage |-> "none"]

elsewhere == <<returned, kart, encodedId, legendDir, projection, spatialIndex, walk, accessor, emitter>>

InitWorkingCopy ==
  /\ schema = SchemaWith("geom")
  /\ featureDir = FeatureFiles
  /\ cache = [cached |-> FALSE, features |-> << >>]
  /\ geometryType = Undefined
  /\ trackedChanges = << >>
  /\ listeners = [e \in Events |-> << >>]
  /\ delivered = << >>
  /\ lastCall = Call("new", Undefined, TRUE, NoFeature, NullGeometry,
                     NoProperties, TRUE)
  /\ calls = 0

Init ==
  /\ InitWorkingCopy
  /\ emitter = NoEmitter
  /\ accessor = NoAccessor
  /\ walk = NoWalk
  /\ spatialIndex = NoSpatialIndex
  /\ returned = NothingReturned
  /\ kart = NoRepository
  /\ encodedId = NoEncodedId
  /\ legendDir = NoLegendDir
  /\ projection = NoProjection

\* what a mutation leaves when it returns or throws: the tracked changes, and
\* the listeners it has invoked
Mutation(result, call) ==
  /\ calls' = calls + 1
  /\ trackedChanges' = result.trackedChanges
  /\ delivered' = EmitAll(listeners, result.emits, 1)
  /\ lastCall' = call
  /\ UNCHANGED <<schema, featureDir, cache, geometryType, listeners>>
  /\ UNCHANGED elsewhere

\* a call that is no mutation
Other(call) ==
  /\ calls' = calls + 1
  /\ delivered' = << >>
  /\ lastCall' = call
  /\ UNCHANGED elsewhere

CallAdd(feature) ==
  /\ calls < MaxCalls
  /\ LET r == Add(featureDir, trackedChanges, geometryType, feature)
     IN Mutation(r, Call("add", feature.id, r.ok, feature, feature.geometry,
                         feature.properties, TRUE))

CallDelete(featureId) ==
  /\ calls < MaxCalls
  /\ LET r == Delete(featureDir, trackedChanges, featureId)
     IN Mutation(r, Call("delete", featureId, r.ok, NoFeature, NullGeometry,
                         NoProperties, TRUE))

CallUpdateProperties(featureId, properties, merge) ==
  /\ calls < MaxCalls
  /\ LET r == UpdateProperties(featureDir, trackedChanges, featureId,
                               properties, merge)
     IN Mutation(r, Call("updateProperties", featureId, r.ok, NoFeature,
                         NullGeometry, properties, merge))

CallUpdateGeometry(featureId, geometry) ==
  /\ calls < MaxCalls
  /\ LET r == UpdateGeometry(featureDir, trackedChanges, geometryType,
                             featureId, geometry)
     IN Mutation(r, Call("updateGeometry", featureId, r.ok, NoFeature, geometry,
                         NoProperties, TRUE))

\* toGeoJSON(): the dataset caches its collection on the first call
CallToGeoJSON ==
  /\ calls < MaxCalls
  /\ LET datasetGeoJSON == IF cache.cached THEN cache.features
                           ELSE DatasetToGeoJSON(featureDir)
         r == ToGeoJSON(datasetGeoJSON, trackedChanges)
     IN /\ Other(Call("toGeoJSON", Undefined, r.ok, NoFeature, NullGeometry,
                      NoProperties, TRUE))
        /\ cache' = [cached |-> TRUE, features |-> r.cached]
  /\ UNCHANGED <<schema, featureDir, geometryType, trackedChanges, listeners>>

\* a caller sets the public field geometryType, which the constructor leaves
\* undefined
AssignGeometryType(type) ==
  /\ calls < MaxCalls
  /\ Other(Call("geometryType", Undefined, TRUE, NoFeature, NullGeometry,
                NoProperties, TRUE))
  /\ geometryType' = type
  /\ UNCHANGED <<schema, featureDir, cache, trackedChanges, listeners>>

CallOn(event, listener) ==
  /\ calls < MaxCalls
  /\ Other(Call("on", Undefined, TRUE, NoFeature, NullGeometry, NoProperties, TRUE))
  /\ listeners' = On(listeners, event, listener)
  /\ UNCHANGED <<schema, featureDir, cache, geometryType, trackedChanges>>

CallOff(event, listener) ==
  /\ calls < MaxCalls
  /\ Other(Call("off", Undefined, TRUE, NoFeature, NullGeometry, NoProperties, TRUE))
  /\ listeners' = Off(listeners, event, listener)
  /\ UNCHANGED <<schema, featureDir, cache, geometryType, trackedChanges>>

CallOffAll ==
  /\ calls < MaxCalls
  /\ Other(Call("off", Undefined, TRUE, NoFeature, NullGeometry, NoProperties, TRUE))
  /\ listeners' = OffAll(listeners)
  /\ UNCHANGED <<schema, featureDir, cache, geometryType, trackedChanges>>

Next ==
  \/ \E feature \in AddInputs : CallAdd(feature)
  \/ \E featureId \in Eids : CallDelete(featureId)
  \/ \E featureId \in Eids, properties \in UpdateInputs, merge \in BOOLEAN :
       CallUpdateProperties(featureId, properties, merge)
  \/ \E featureId \in Eids, geometry \in Geometries :
       CallUpdateGeometry(featureId, geometry)
  \/ CallToGeoJSON
  \/ \E type \in GeometryTypes : AssignGeometryType(type)

Spec == Init /\ [][Next]_vars

\* the working copy with callers that register and remove listeners
NextEvents ==
  \/ Next
  \/ \E event \in Events, listener \in Listeners : CallOn(event, listener)
  \/ \E event \in Events, listener \in Listeners : CallOff(event, listener)
  \/ CallOffAll

SpecEvents == Init /\ [][NextEvents]_vars


\* ------------------------------------------------------------- deepFreeze
\* The FeatureCollection toGeoJSON() hands to deepFreeze, as a graph of
\* objects. Each object has an extensible flag and, for each own property,
\* the attributes writable and configurable.
Objects == {"collection", "features", "feature", "properties", "geometry",
            "coordinates"}

\* the arrays among them: their length is writable and not configurable
Arrays == {"features", "coordinates"}

\* the own property keys of each object as toGeoJSON() builds it
OwnKeys(object) ==
  CASE object = "collection" -> {"type", "features"}
    [] object = "features" -> {"0", "length"}
    [] object = "feature" -> {"type", "id", "properties", "geometry"}
    [] object = "properties" -> {"a", "b"}
    [] object = "geometry" -> {"type", "coordinates"}
    [] OTHER -> {"0", "1", "length"}

\* the properties whose value is an object, in Reflect.ownKeys order
ChildKeys(object) ==
  CASE object = "collection" -> <<"features">>
    [] object = "features" -> <<"0">>
    [] object = "feature" -> <<"properties", "geometry">>
    [] object = "geometry" -> <<"coordinates">>
    [] OTHER -> << >>

\* the object a property refers to
Child(object, key) ==
  CASE object = "collection" -> "features"
    [] object = "features" -> "feature"
    [] object = "feature" -> key
    [] OTHER -> "coordinates"

\* an object as an object literal, an array literal or parse() creates it
NewObject(object, keys) ==
  [extensible |-> TRUE,
   props |-> [k \in keys |->
                [writable |-> TRUE,
                 configurable |-> ~(object \in Arrays /\ k = "length")]]]

\* Object.freeze(object): shallow
ObjectFreeze(h, object) ==
  [h EXCEPT ![object] =
     [extensible |-> FALSE,
      props |-> [k \in DOMAIN h[object].props |->
                   [writable |-> FALSE, configurable |-> FALSE]]]]

\* Object.isFrozen(object)
ObjectIsFrozen(h, object) ==
  /\ ~h[object].extensible
  /\ \A k \in DOMAIN h[object].props :
       ~h[object].props[k].writable /\ ~h[object].props[k].configurable

RECURSIVE deepFreeze(_, _)
RECURSIVE FreezeChildren(_, _, _)
\* deepFreeze: "freeze properties before freezing self"
FreezeChildren(h, object, i) ==
  IF i > Len(ChildKeys(object)) THEN h
  ELSE LET key == ChildKeys(object)[i]
       IN FreezeChildren(
            IF key \in DOMAIN h[object].props
            THEN deepFreeze(h, Child(object, key)) ELSE h,
            object, i + 1)

\* deepFreeze: an object that is already frozen is skipped with all it
\* refers to; otherwise every configurable own property is redefined with
\* writable: false, configurable: true (toJSON with writable: true) and the
\* object is made non-extensible
deepFreeze(h, object) ==
  IF ObjectIsFrozen(h, object) THEN h
  ELSE LET frozenChildren == FreezeChildren(h, object, 1)
           own == frozenChildren[object]
       IN [frozenChildren EXCEPT ![object] =
             [extensible |-> FALSE,
              props |-> [k \in DOMAIN own.props |->
                           IF ~own.props[k].configurable THEN own.props[k]
                           ELSE IF k = "toJSON" /\ own.extensible
                           THEN [writable |-> TRUE, configurable |-> TRUE]
                           ELSE [writable |-> FALSE, configurable |-> TRUE]]]]

\* the object whose property refers to an object, and that property's key
Parent(object) ==
  CASE object = "features" -> "collection"
    [] object = "feature" -> "features"
    [] object = "coordinates" -> "geometry"
    [] OTHER -> "feature"

ParentKey(object) ==
  CASE object = "features" -> "features"
    [] object = "feature" -> "0"
    [] object = "coordinates" -> "coordinates"
    [] OTHER -> object

RECURSIVE Reachable(_, _)
\* whether an object can be reached from the collection
Reachable(h, object) ==
  \/ object = "collection"
  \/ /\ ParentKey(object) \in DOMAIN h[Parent(object)].props
     /\ Reachable(h, Parent(object))

\* the objects a caller handed over and may have frozen with Object.freeze:
\* an added feature is pushed as it is, a geometry given to updateGeometry
\* is assigned as it is
CallerObjects == {"feature", "properties", "geometry", "coordinates"}

RECURSIVE FreezeAll(_, _)
FreezeAll(h, objects) ==
  IF objects = {} THEN h
  ELSE LET o == CHOOSE x \in objects : TRUE
       IN FreezeAll(ObjectFreeze(h, o), objects \ {o})

\* the collection before deepFreeze
Built(callerFrozen, withToJSON) ==
  FreezeAll([o \in Objects |->
               NewObject(o, OwnKeys(o) \cup
                            (IF o = "feature" /\ withToJSON
                             THEN {"toJSON"} ELSE {}))],
            callerFrozen)

NoAttempt == [op |-> "none", object |-> "none", key |-> "none", threw |-> FALSE]

InitReturned ==
  /\ InitWorkingCopy
  /\ emitter = NoEmitter
  /\ accessor = NoAccessor
  /\ walk = NoWalk
  /\ spatialIndex = NoSpatialIndex
  /\ \E callerFrozen \in SUBSET CallerObjects, withToJSON \in BOOLEAN :
       returned = [stage |-> "built", heap |-> Built(callerFrozen, withToJSON),
                   attempt |-> NoAttempt, attempts |-> 0]
  /\ kart = NoRepository
  /\ encodedId = NoEncodedId
  /\ legendDir = NoLegendDir
  /\ projection = NoProjection

\* toGeoJSON: return deepFreeze({ type: 'FeatureCollection', features })
ReturnDeepFrozen ==
  /\ returned.stage = "built"
  /\ returned' = [returned EXCEPT !.stage = "frozen",
                                  !.heap = deepFreeze(returned.heap, "collection")]
  /\ UNCHANGED <<workingCopy, kart, encodedId, legendDir, projection, spatialIndex, walk, accessor, emitter>>

\* what a caller's strict-mode code does to an object of the result
Attempt(op, object, key, threw, heap) ==
  /\ returned.stage = "frozen"
  /\ returned.attempts < MaxAttempts
  /\ Reachable(returned.heap, object)
  /\ returned' = [stage |-> "frozen",
                  heap |-> IF threw THEN returned.heap ELSE heap,
                  attempt |-> [op |-> op, object |-> object, key |-> key,
                               threw |-> threw],
                  attempts |-> returned.attempts + 1]
  /\ UNCHANGED <<workingCopy, kart, encodedId, legendDir, projection, spatialIndex, walk, accessor, emitter>>

\* object[key] = value for an own property: a TypeError unless writable
AssignProperty(object, key) ==
  /\ returned.stage = "frozen"
  /\ key \in DOMAIN returned.heap[object].props
  /\ Attempt("assign", object, key,
             ~returned.heap[object].props[key].writable, returned.heap)

\* object[key] = value for a new key: a TypeError unless extensible
AddProperty(object) ==
  /\ returned.stage = "frozen"
  /\ "added" \notin DOMAIN returned.heap[object].props
  /\ Attempt("add", object, "added", ~returned.heap[object].extensible,
             [returned.heap EXCEPT ![object].props =
                [k \in DOMAIN @ \cup {"added"} |->
                   IF k = "added"
                   THEN [writable |-> TRUE, configurable |-> TRUE] ELSE @[k]]])

\* delete object[key]: a TypeError unless configurable
DeleteProperty(object, key) ==
  /\ returned.stage = "frozen"
  /\ key \in DOMAIN returned.heap[object].props
  /\ Attempt("delete", object, key,
             ~returned.heap[object].props[key].configurable,
             [returned.heap EXCEPT ![object].props =
                [k \in DOMAIN @ \ {key} |-> @[k]]])

AllKeys == UNION {OwnKeys(o) : o \in Objects} \cup {"toJSON", "added"}

NextReturned ==
  \/ ReturnDeepFrozen
  \/ \E object \in Objects, key \in AllKeys : AssignProperty(object, key)
  \/ \E object \in Objects : AddProperty(object)
  \/ \E object \in Objects, key \in AllKeys : DeleteProperty(object, key)

SpecReturned == InitReturned /\ [][NextReturned]_vars

\* --------------------------------------------------------- Data and Diff
\* the entries of the repository directory, and those of them for which
\* TableDatasetV3.isValidDataset holds; a dataset's id is its folder name
RepoEntries == {"roads", "lakes", "README"}
ValidDatasets == {"roads", "lakes"}

\* Data.has
DataHas(name) == name \in ValidDatasets

\* new TableDatasetV3(repoDir, name): its working copy tracks nothing
NewDataset(name) == [id |-> name, trackedChanges |-> << >>]

\* a get that constructs a dataset on every call
DataGetAlwaysNew(datatsets, name) ==
  [datatsets |-> MapSet(datatsets, name, NewDataset(name)),
   dataset |-> NewDataset(name)]

\* Data.get for a valid name: the dataset constructed on the first call is
\* kept in the Map and returned by the later ones
DataGet(datatsets, name) ==
  IF MapHas(datatsets, name)
  THEN [datatsets |-> datatsets, dataset |-> MapGet(datatsets, name)]
  ELSE [datatsets |-> MapSet(datatsets, name, NewDataset(name)),
        dataset |-> NewDataset(name)]

\* the working copy's diff object: one key, the dataset id
WorkingDiff(dataset) ==
  LET d == Diff(FeatureFiles, dataset.trackedChanges)
  IN [ok |-> d.ok,
      diff |-> [n \in {dataset.id} |-> [keys |-> d.keys, feature |-> d.feature]]]

RECURSIVE ToDiffFrom(_, _, _)
\* Diff.toDiff: for each valid entry of the repository directory, the entry
\* of its working copy's diff under the entry's name
ToDiffFrom(datatsets, names, diffObject) ==
  IF names = {} THEN [ok |-> TRUE, datatsets |-> datatsets, diffObject |-> diffObject]
  ELSE LET name == CHOOSE n \in names : TRUE
       IN IF ~DataHas(name) THEN ToDiffFrom(datatsets, names \ {name}, diffObject)
          ELSE LET got == DataGet(datatsets, name)
                   datasetDiff == WorkingDiff(got.dataset)
               IN IF ~datasetDiff.ok
                  THEN [ok |-> FALSE, datatsets |-> got.datatsets,
                        diffObject |-> diffObject]
                  ELSE ToDiffFrom(
                         got.datatsets, names \ {name},
                         IF name \in DOMAIN datasetDiff.diff
                         THEN [n \in DOMAIN diffObject \cup {name} |->
                                 IF n = name THEN datasetDiff.diff[name]
                                 ELSE diffObject[n]]
                         ELSE diffObject)

NoDiffObject == [n \in {} |-> [keys |-> {}, feature |-> << >>]]

ToDiff(datatsets) == ToDiffFrom(datatsets, RepoEntries, NoDiffObject)

\* the changes callers make through data.get(name).working
Changes ==
  {[op |-> "delete", eid |-> e, properties |-> NoProperties] : e \in {"X", "N"}}
  \cup {[op |-> "updateProperties", eid |-> "X", properties |-> p] :
          p \in {[k \in {"a"} |-> "v2"], [k \in {"b"} |-> "v2"]}}

\* what a change does to a working copy's tracked changes
Apply(tc, change) ==
  IF change.op = "delete" THEN Delete(FeatureFiles, tc, change.eid).trackedChanges
  ELSE UpdateProperties(FeatureFiles, tc, change.eid, change.properties,
                        TRUE).trackedChanges

InitKart ==
  /\ InitWorkingCopy
  /\ emitter = NoEmitter
  /\ accessor = NoAccessor
  /\ walk = NoWalk
  /\ spatialIndex = NoSpatialIndex
  /\ returned = NothingReturned
  /\ encodedId = NoEncodedId
  /\ legendDir = NoLegendDir
  /\ projection = NoProjection
  /\ kart = [stage |-> "open", datatsets |-> << >>,
             made |-> [n \in ValidDatasets |-> << >>],
             changes |-> 0, threw |-> FALSE,
             toDiff |-> [ok |-> FALSE, diffObject |-> NoDiffObject]]

\* data.get(name), for any entry of the repository directory
CallDataGet(name) ==
  /\ kart.stage = "open"
  /\ kart' = IF ~DataHas(name) THEN [kart EXCEPT !.threw = TRUE]
             ELSE [kart EXCEPT !.threw = FALSE,
                               !.datatsets = DataGet(kart.datatsets, name).datatsets]
  /\ UNCHANGED <<workingCopy, returned, encodedId, legendDir, projection, spatialIndex, walk, accessor, emitter>>

\* data.get(name).working.delete(...) or .updateProperties(...); made[name]
\* is the working copy's tracked changes after all changes made through
\* data.get(name) so far
ChangeThroughDataGet(name, change) ==
  /\ kart.stage = "open"
  /\ kart.changes < MaxChanges
  /\ DataHas(name)
  /\ LET got == DataGet(kart.datatsets, name)
         changed == [got.dataset EXCEPT !.trackedChanges = Apply(@, change)]
     IN kart' = [kart EXCEPT !.threw = FALSE,
                             !.changes = @ + 1,
                             !.datatsets = MapSet(got.datatsets, name, changed),
                             !.made[name] = Apply(@, change)]
  /\ UNCHANGED <<workingCopy, returned, encodedId, legendDir, projection, spatialIndex, walk, accessor, emitter>>

\* diff.toDiff()
CallToDiff ==
  /\ kart.stage = "open"
  /\ LET r == ToDiff(kart.datatsets)
     IN kart' = [kart EXCEPT !.stage = "diffed",
                             !.threw = ~r.ok,
                             !.datatsets = r.datatsets,
                             !.toDiff = [ok |-> r.ok, diffObject |-> r.diffObject]]
  /\ UNCHANGED <<workingCopy, returned, encodedId, legendDir, projection, spatialIndex, walk, accessor, emitter>>

\* the caller goes on after toDiff
Continue ==
  /\ kart.stage = "diffed"
  /\ kart' = [kart EXCEPT !.stage = "open"]
  /\ UNCHANGED <<workingCopy, returned, encodedId, legendDir, projection, spatialIndex, walk, accessor, emitter>>

NextKart ==
  \/ \E name \in RepoEntries : CallDataGet(name)
  \/ \E name \in RepoEntries, change \in Changes : ChangeThroughDataGet(name, change)
  \/ CallToDiff
  \/ Continue

SpecKart == InitKart /\ [][NextKart]_vars

\* ---------------------------------------------------------- PathStructure
\* Strings are sequences of one-character strings.
HexChars == <<"0", "1", "2", "3", "4", "5", "6", "7", "8", "9",
              "a", "b", "c", "d", "e", "f">>

Base64Chars ==
  <<"A", "B", "C", "D", "E", "F", "G", "H", "I", "J", "K", "L", "M", "N", "O",
    "P", "Q", "R", "S", "T", "U", "V", "W", "X", "Y", "Z", "a", "b", "c", "d",
    "e", "f", "g", "h", "i", "j", "k", "l", "m", "n", "o", "p", "q", "r", "s",
    "t", "u", "v", "w", "x", "y", "z", "0", "1", "2", "3", "4", "5", "6", "7",
    "8", "9", "+", "/">>

\* pathStructureSchema: the valid path structures, levels up to MaxLevels
PathStructures ==
  {ps \in [scheme : {"int", "msgpack/hash"}, branches : {16, 64, 256},
           levels : 1..MaxLevels, encoding : {"base64", "hex"}] :
     /\ ps.encoding = "base64" => ps.branches = 64
     /\ ps.encoding = "hex" => ps.branches \in {16, 256}}

\* String.prototype.padStart and slice(0, n)
PadStart(string, length, char) ==
  IF Len(string) >= length THEN string
  ELSE [i \in 1..(length - Len(string)) |-> char] \o string

SliceTo(string, n) ==
  IF n >= Len(string) THEN string ELSE SubSeq(string, 1, n)

\* charSlash: "abc" becomes "a/b/c/"
charSlash(string) ==
  [i \in 1..(2 * Len(string)) |-> IF i % 2 = 1 THEN string[(i + 1) \div 2] ELSE "/"]

RECURSIVE Digits(_, _, _)
\* the while loop of bigIntToHex and bigIntTobase64: the digits of a positive
\* integer, most significant first; nothing for an integer below 1
Digits(integer, base, chars) ==
  IF integer > 0
  THEN Digits(integer \div base, base, chars) \o <<chars[(integer % base) + 1]>>
  ELSE << >>

\* bigIntToHex / bigIntTobase64: ok is FALSE when it throws
BigIntTo(integer, maxLength, base, chars) ==
  IF integer = 0 THEN [ok |-> TRUE, result |-> <<chars[1]>>]
  ELSE LET result == Digits(integer, base, chars)
       IN IF Len(result) > maxLength THEN [ok |-> FALSE, result |-> << >>]
          ELSE [ok |-> TRUE, result |-> result]

bigIntToHex(integer, maxLength) == BigIntTo(integer, maxLength, 16, HexChars)
bigIntTobase64(integer, maxLength) == BigIntTo(integer, maxLength, 64, Base64Chars)

\* the (levels + 1)-character encoding encodeIntegerAsFolderStructure slices
EncodedInteger(ps, integer) ==
  LET maxLength == ps.levels + 1
      digits == IF ps.encoding = "base64" THEN bigIntTobase64(integer, maxLength)
                ELSE bigIntToHex(integer, maxLength)
  IN [ok |-> digits.ok,
      encoded |-> PadStart(digits.result, maxLength,
                           IF ps.encoding = "base64" THEN "A" ELSE "0")]

\* encodeIntegerAsFolderStructure
encodeIntegerAsFolderStructure(ps, integer) ==
  LET e == EncodedInteger(ps, integer)
  IN [ok |-> e.ok,
      folderStructure |->
        charSlash(SliceTo(e.encoded,
                          ps.levels * (IF ps.encoding = "base64" THEN 1 ELSE 2)))]

\* Uint8Array.prototype.toHex
ToHex(bytes) ==
  [i \in 1..(2 * Len(bytes)) |->
     IF i % 2 = 1 THEN HexChars[(bytes[(i + 1) \div 2] \div 16) + 1]
     ELSE HexChars[(bytes[i \div 2] % 16) + 1]]

\* the byte at a position, 0 past the end
ByteAt(bytes, i) == IF i <= Len(bytes) THEN bytes[i] ELSE 0

\* Uint8Array.prototype.toBase64: four characters per group of three bytes,
\* "=" where the last group has no byte
ToBase64(bytes) ==
  [i \in 1..(4 * ((Len(bytes) + 2) \div 3)) |->
     LET group == (i - 1) \div 4
         first == 3 * group + 1
         bits == ByteAt(bytes, first) * 65536 + ByteAt(bytes, first + 1) * 256
                 + ByteAt(bytes, first + 2)
         position == (i - 1) % 4
         sextet == CASE position = 0 -> bits \div 262144
                     [] position = 1 -> (bits \div 4096) % 64
                     [] position = 2 -> (bits \div 64) % 64
                     [] OTHER -> bits % 64
     IN IF position = 2 /\ first + 1 > Len(bytes) THEN "="
        ELSE IF position = 3 /\ first + 2 > Len(bytes) THEN "="
        ELSE Base64Chars[sextet + 1]]

\* replaceAll('=', '')
RECURSIVE StripPadding(_)
StripPadding(string) ==
  IF string = << >> THEN << >>
  ELSE (IF Head(string) = "=" THEN << >> ELSE <<Head(string)>>)
       \o StripPadding(Tail(string))

\* encodeArrayAsFolderStructure, given sha256(msgpack.encode(values))
encodeArrayAsFolderStructure(ps, hashed) ==
  LET clipped == SliceTo(hashed, ps.levels)
      encoded == IF ps.encoding = "base64"
                 THEN PadStart(StripPadding(ToBase64(clipped)), ps.levels, "A")
                 ELSE PadStart(ToHex(clipped), ps.levels * 2, "0")
  IN charSlash(SliceTo(encoded,
                       ps.levels * (IF ps.encoding = "base64" THEN 1 ELSE 2)))

\* getEid: ok is FALSE when it throws; the file name is the base64 of the
\* packed key values
getEid(ps, primaryKeyValues, hashed) ==
  LET threw == [ok |-> FALSE, folderStructure |-> << >>,
                fileName |-> primaryKeyValues]
  IN IF ps.scheme = "int" /\ Len(primaryKeyValues) # 1 THEN threw
     ELSE IF Len(primaryKeyValues) = 0 THEN threw
     ELSE IF ps.scheme = "int"
     THEN [ok |-> encodeIntegerAsFolderStructure(ps, primaryKeyValues[1]).ok,
           folderStructure |->
             encodeIntegerAsFolderStructure(ps, primaryKeyValues[1]).folderStructure,
           fileName |-> primaryKeyValues]
     ELSE [ok |-> TRUE,
           folderStructure |-> encodeArrayAsFolderStructure(ps, hashed),
           fileName |-> primaryKeyValues]

\* the integers used as primary-key values: around the powers of 16 and 64,
\* and with the hex digit f and the base64 digit "/"
KeyIntegers == {-1, 0, 1, 15, 16, 17, 255, 256, 768, 769, 4032, 4095, 4096,
                65535, 65536, 262143, 262144, 16777216}

KeyTuples == {<<k>> : k \in KeyIntegers} \cup {<<1, 2>>, <<7, 7>>}

\* the bytes sha256 may begin with
HashBytes == {0, 1, 128, 255}

NoHash == [i \in 1..MaxLevels |-> 0]

InitEncodedId ==
  /\ InitWorkingCopy
  /\ emitter = NoEmitter
  /\ accessor = NoAccessor
  /\ walk = NoWalk
  /\ spatialIndex = NoSpatialIndex
  /\ returned = NothingReturned
  /\ kart = NoRepository
  /\ legendDir = NoLegendDir
  /\ projection = NoProjection
  /\ \E ps \in PathStructures, primaryKeyValues \in KeyTuples,
        hashed \in [1..MaxLevels -> HashBytes] :
       /\ ps.scheme = "int" => hashed = NoHash
       /\ encodedId = [stage |-> "new", ps |-> ps,
                       primaryKeyValues |-> primaryKeyValues, hashed |-> hashed,
                       eid |-> getEid(ps, << >>, hashed)]

\* pathStructure.getEid(primaryKeyValues)
CallGetEid ==
  /\ encodedId.stage = "new"
  /\ encodedId' = [encodedId EXCEPT
                     !.stage = "done",
                     !.eid = getEid(encodedId.ps, encodedId.primaryKeyValues,
                                    encodedId.hashed)]
  /\ UNCHANGED <<workingCopy, returned, kart, legendDir, projection, spatialIndex, walk, accessor, emitter>>

NextEncodedId == CallGetEid

SpecEncodedId == InitEncodedId /\ [][NextEncodedId]_vars

\* ------------------------------------------------------------------ Legend

\* The model follows Legend in src/unnamed/part_004 (from line 99) and the
\* loop of TableDatasetV3's constructor that loads meta/legend/.
\* A buffer is the sequence of its bytes.  A legend file is a record
\* [exists, name, bytes]; a legend is a record [id, primaryKeyIds,
\* nonPrimaryKeyIds].  A call that throws gives [ok |-> FALSE, error |-> the
\* name of the error class].

\* the UTF-8 bytes of a column id
Utf8(string) ==
  CASE string = "id" -> <<105, 100>>
    [] string = "name" -> <<110, 97, 109, 101>>

\* MessagePack: a string shorter than 32 bytes is written as a fixstr
\* (0xa0 + length); a decoder also reads it from a str 8 (0xd9, length)
StringEncodings(string) ==
  { <<160 + Len(Utf8(string))>> \o Utf8(string),
    <<217, Len(Utf8(string))>> \o Utf8(string) }

RECURSIVE ItemsEncodings(_)
ItemsEncodings(array) ==
  IF array = <<>> THEN { <<>> }
  ELSE { head \o tail : head \in StringEncodings(Head(array)),
                        tail \in ItemsEncodings(Tail(array)) }

\* an array shorter than 16 is a fixarray (0x90 + length)
ArrayEncodings(array) ==
  { <<144 + Len(array)>> \o items : items \in ItemsEncodings(array) }

\* every byte string msgpack.decode reads as [primaryKeyIds, nonPrimaryKeyIds]
LegendEncodings(primaryKeyIds, nonPrimaryKeyIds) ==
  { <<146>> \o pk \o nonPk : pk \in ArrayEncodings(primaryKeyIds),
                             nonPk \in ArrayEncodings(nonPrimaryKeyIds) }

RECURSIVE EncodeItems(_)
EncodeItems(array) ==
  IF array = <<>> THEN <<>>
  ELSE <<160 + Len(Utf8(Head(array)))>> \o Utf8(Head(array))
         \o EncodeItems(Tail(array))

\* Legend.toBuffer: msgpack.encode([primaryKeyIds, nonPrimaryKeyIds])
toBuffer(primaryKeyIds, nonPrimaryKeyIds) ==
  <<146>> \o <<144 + Len(primaryKeyIds)>> \o EncodeItems(primaryKeyIds)
          \o <<144 + Len(nonPrimaryKeyIds)>> \o EncodeItems(nonPrimaryKeyIds)

\* the column lists of the legends under consideration
LegendColumns ==
  { [primaryKeyIds |-> <<"id">>, nonPrimaryKeyIds |-> <<"name">>],
    [primaryKeyIds |-> <<"id">>, nonPrimaryKeyIds |-> <<>>] }

\* the contents of the legend files: every encoding of those legends, the
\* integer 1, the byte 0xc1 (not MessagePack) and the empty file
FileBytes ==
  UNION { LegendEncodings(l.primaryKeyIds, l.nonPrimaryKeyIds) :
            l \in LegendColumns }
    \cup { <<1>>, <<193>>, <<>> }

\* serializer.hexHash: sha256(bytes).slice(0, 20).toHex(), for the contents
\* above
hexHash(bytes) ==
  CASE bytes = <<146, 145, 162, 105, 100, 145, 164, 110, 97, 109, 101>>
         -> "0c52fc6f9a11ec6720ea67d3fa67065001bc4ae0"
    [] bytes = <<146, 145, 162, 105, 100, 145, 217, 4, 110, 97, 109, 101>>
         -> "7c10d534911e5f7576e9e5680ad9141a9e2c179c"
    [] bytes = <<146, 145, 217, 2, 105, 100, 145, 164, 110, 97, 109, 101>>
         -> "9ad6441b31b32a3b56fff9b9b8958f3939833907"
    [] bytes = <<146, 145, 217, 2, 105, 100, 145, 217, 4, 110, 97, 109, 101>>
         -> "d47d96a541950bc2c57fecec40c2efbba233c1e2"
    [] bytes = <<146, 145, 162, 105, 100, 144>>
         -> "79e5a5e270c5b205cbee83dc20ad7b683424775a"
    [] bytes = <<146, 145, 217, 2, 105, 100, 144>>
         -> "156f7797f829ff2b1fd38bc12170c4accab840ab"
    [] bytes = <<1>> -> "4bf5122f344554c53bde2ebb8cd2b7e3d1600ad6"
    [] bytes = <<193>> -> "d1bbd73bb09190bfb883056771e22e997541ed20"
    [] bytes = <<>> -> "e3b0c44298fc1c149afbf4c8996fb92427ae41e4"

NoLegend == [id |-> "", primaryKeyIds |-> <<>>, nonPrimaryKeyIds |-> <<>>]

LegendThrew(error) == [ok |-> FALSE, error |-> error, legend |-> NoLegend]

LegendReturned(legend) == [ok |-> TRUE, error |-> "", legend |-> legend]

\* new Legend(primaryKeyIds, nonPrimaryKeyIds, id) without skipValidation
\* (id = "" when it is not given)
NewLegend(primaryKeyIds, nonPrimaryKeyIds, id) ==
  LET hash == hexHash(toBuffer(primaryKeyIds, nonPrimaryKeyIds))
  IN IF id # "" /\ hash # id
     THEN LegendThrew("InvalidFileContentsError")
     ELSE LegendReturned([id |-> hash,
                          primaryKeyIds |-> primaryKeyIds,
                          nonPrimaryKeyIds |-> nonPrimaryKeyIds])

\* msgpack.decode followed by legendSchema.parse
DecodeLegend(bytes) ==
  IF \E l \in LegendColumns :
       bytes \in LegendEncodings(l.primaryKeyIds, l.nonPrimaryKeyIds)
  THEN [ok |-> TRUE, error |-> "",
        columns |-> CHOOSE l \in LegendColumns :
          bytes \in LegendEncodings(l.primaryKeyIds, l.nonPrimaryKeyIds)]
  ELSE [ok |-> FALSE,
        error |-> IF bytes = <<1>> THEN "ZodError" ELSE "DecodeError",
        columns |-> [primaryKeyIds |-> <<>>, nonPrimaryKeyIds |-> <<>>]]

\* Legend.fromBuffer(buffer, id)
fromBuffer(buffer, id) ==
  IF Len(buffer) = 0 THEN LegendThrew("RangeError")
  ELSE LET hash == hexHash(buffer)
       IN IF id # "" /\ hash # id
          THEN LegendThrew("InvalidFileContentsError")
          ELSE LET parsed == DecodeLegend(buffer)
               IN IF ~parsed.ok THEN LegendThrew(parsed.error)
                  ELSE NewLegend(parsed.columns.primaryKeyIds,
                                 parsed.columns.nonPrimaryKeyIds, hash)

\* Legend.fromFile(filePath)
fromFile(filePath) ==
  IF ~filePath.exists THEN LegendThrew("FileNotFoundError")
  ELSE IF Len(filePath.bytes) = 0 THEN LegendThrew("RangeError")
  ELSE IF filePath.name # hexHash(filePath.bytes)
       THEN LegendThrew("InvalidFileContentsError")
       ELSE fromBuffer(filePath.bytes, filePath.name)

\* the files meta/legend/ can hold: each is named by the hash of its own
\* contents or by the hash of another legend
LegendFiles ==
  UNION { { [exists |-> exists, name |-> name, bytes |-> bytes] :
              exists \in BOOLEAN,
              name \in { hexHash(bytes), hexHash(toBuffer(<<"id">>, <<>>)) } } :
          bytes \in FileBytes }

\* the constructor of TableDatasetV3 has listed meta/legend/
InitLegendDir ==
  /\ InitWorkingCopy
  /\ emitter = NoEmitter
  /\ accessor = NoAccessor
  /\ walk = NoWalk
  /\ spatialIndex = NoSpatialIndex
  /\ returned = NothingReturned
  /\ kart = NoRepository
  /\ encodedId = NoEncodedId
  /\ projection = NoProjection
  /\ \E n \in 1..MaxLegendFiles : \E files \in [1..n -> LegendFiles] :
       legendDir = [stage |-> "loading", legendFiles |-> files,
                    legends |-> <<>>, read |-> 0,
                    last |-> LegendThrew("")]

\* one turn of "for (const legendFile of legendFiles)"
LoadLegendFile ==
  /\ legendDir.stage = "loading"
  /\ legendDir.read < Len(legendDir.legendFiles)
  /\ LET legend == fromFile(legendDir.legendFiles[legendDir.read + 1])
     IN legendDir' =
          [legendDir EXCEPT
             !.read = @ + 1,
             !.last = legend,
             !.legends = IF legend.ok THEN Append(@, legend.legend) ELSE @,
             !.stage = IF legend.ok THEN @ ELSE "failed"]
  /\ UNCHANGED <<workingCopy, returned, kart, encodedId, projection, spatialIndex, walk, accessor, emitter>>

\* the loop is over: the dataset keeps the legends
LegendsLoaded ==
  /\ legendDir.stage = "loading"
  /\ legendDir.read = Len(legendDir.legendFiles)
  /\ legendDir' = [legendDir EXCEPT !.stage = "loaded"]
  /\ UNCHANGED <<workingCopy, returned, kart, encodedId, projection, spatialIndex, walk, accessor, emitter>>

NextLegendDir ==
  \/ LoadLegendFile
  \/ LegendsLoaded

SpecLegendDir == InitLegendDir /\ [][NextLegendDir]_vars

\* -------------------------------------------------------------- RawFeature

\* The model follows RawFeature.toObject in
\* src/lib/table-dataset-v3/serializer.ts.  A decoded value is a record
\* [type, value]; a schema is the sequence of its entries [id, name,
\* isPrimary]; a legend is a record [primaryKeyIds, nonPrimaryKeyIds].

IntegerValue(n) == [type |-> "integer", value |-> n]

TextValue(n) == [type |-> "text", value |-> n]

NullValue == [type |-> "null", value |-> 0]

UndefinedValue == [type |-> "undefined", value |-> 0]

\* array[index] for a JavaScript index (from 0)
ArrayAt(array, index) ==
  IF index + 1 \in 1..Len(array) THEN array[index + 1] ELSE UndefinedValue

\* Legend.columnIds
columnIds(legend) ==
  [i \in 1..Len(legend.primaryKeyIds) |->
     [columnId |-> legend.primaryKeyIds[i], isPrimary |-> TRUE,
      dataIndex |-> i - 1]]
  \o [i \in 1..Len(legend.nonPrimaryKeyIds) |->
        [columnId |-> legend.nonPrimaryKeyIds[i], isPrimary |-> FALSE,
         dataIndex |-> i - 1]]

\* rawFeatureData: column id -> raw value, set column by column
RECURSIVE RawFeatureData(_, _, _)
RawFeatureData(columns, raw, map) ==
  IF columns = << >> THEN map
  ELSE LET column == Head(columns)
       IN RawFeatureData(Tail(columns), raw,
            MapSet(map, column.columnId,
                   IF column.isPrimary
                   THEN ArrayAt(raw.primaryKeys, column.dataIndex)
                   ELSE ArrayAt(raw.properties, column.dataIndex)))

\* rawFeatureData.get(id) ?? null
GetOrNull(rawFeatureData, id) ==
  LET value == IF MapHas(rawFeatureData, id)
               THEN rawFeatureData[MapIndex(rawFeatureData, id, 1)].value
               ELSE UndefinedValue
  IN IF value.type \in {"undefined", "null"} THEN NullValue ELSE value

\* ids / properties: name -> value, set entry by entry
RECURSIVE Upgrade(_, _, _)
Upgrade(entries, rawFeatureData, map) ==
  IF entries = << >> THEN map
  ELSE Upgrade(Tail(entries), rawFeatureData,
               MapSet(map, Head(entries).name,
                      GetOrNull(rawFeatureData, Head(entries).id)))

IsPrimaryEntry(entry) == entry.isPrimary

IsNotPrimaryEntry(entry) == ~entry.isPrimary

\* Array.from(map.values())
MapValues(map) == [i \in 1..Len(map) |-> map[i].value]

\* pathStructure.getEid on decoded values: the int scheme wants one integer
getEidOfValues(ps, values, hashed) ==
  IF ps.scheme = "int" /\ Len(values) = 1 /\ values[1].type # "integer"
  THEN [ok |-> FALSE, folderStructure |-> << >>, fileName |-> << >>]
  ELSE getEid(ps, [i \in 1..Len(values) |-> values[i].value], hashed)

NoProjected ==
  [ok |-> FALSE, ids |-> << >>, properties |-> << >>, droppedKeys |-> << >>]

\* RawFeature.toObject(legends, schema, pathStructure, crss); ok is FALSE
\* when it throws
toObject(raw, legends, currentSchema, ps, hashed) ==
  IF raw.legendId \notin DOMAIN legends THEN NoProjected
  ELSE
    LET legend == legends[raw.legendId]
        rawFeatureData == RawFeatureData(columnIds(legend), raw, << >>)
        ids == Upgrade(SelectSeq(currentSchema, IsPrimaryEntry), rawFeatureData, << >>)
        properties ==
          Upgrade(SelectSeq(currentSchema, IsNotPrimaryEntry), rawFeatureData, << >>)
        processedKeyIds == {currentSchema[i].id : i \in 1..Len(currentSchema)}
        NotProcessed(column) == column.columnId \notin processedKeyIds
        dropped == SelectSeq(columnIds(legend), NotProcessed)
        eid == getEidOfValues(ps, MapValues(ids), hashed)
    IN IF ~eid.ok THEN NoProjected
       ELSE [ok |-> TRUE, ids |-> ids, properties |-> properties,
             droppedKeys |-> [i \in 1..Len(dropped) |-> dropped[i].columnId]]

\* a schema entry; isPrimary is derived: primaryKeyIndex is a number >= 0
\* (-1 stands for a null or negative primaryKeyIndex)
SchemaEntry(id, name, primaryKeyIndex) ==
  [id |-> id, name |-> name, primaryKeyIndex |-> primaryKeyIndex,
   isPrimary |-> primaryKeyIndex >= 0]

\* the current schemas: as the first legend, with a column renamed, added,
\* dropped, promoted and demoted, and with a new primary key
CurrentSchemas ==
  { <<SchemaEntry("c1", "id", 0), SchemaEntry("c2", "name", -1)>>,
    <<SchemaEntry("c1", "id", 0), SchemaEntry("c2", "title", -1)>>,
    <<SchemaEntry("c1", "id", 0), SchemaEntry("c2", "name", -1),
      SchemaEntry("c3", "age", -1)>>,
    <<SchemaEntry("c1", "id", 0)>>,
    <<SchemaEntry("c1", "id", -1), SchemaEntry("c2", "name", 0)>>,
    <<SchemaEntry("c3", "fid", 0), SchemaEntry("c1", "id", -1)>> }

\* the legends of the dataset, by id
DatasetLegends ==
  [id \in {"L1", "L2", "L3"} |->
     CASE id = "L1" -> [primaryKeyIds |-> <<"c1">>, nonPrimaryKeyIds |-> <<"c2">>]
       [] id = "L2" -> [primaryKeyIds |-> <<"c1">>,
                        nonPrimaryKeyIds |-> <<"c2", "c3">>]
       [] id = "L3" -> [primaryKeyIds |-> <<"c2">>, nonPrimaryKeyIds |-> <<"c1">>]]

\* toLegend: primaryKeyIdsMap, a Map from primaryKeyIndex to column id, set
\* entry by entry
RECURSIVE PrimaryKeyIdsMap(_, _)
PrimaryKeyIdsMap(entries, map) ==
  IF entries = << >> THEN map
  ELSE PrimaryKeyIdsMap(Tail(entries),
         IF Head(entries).primaryKeyIndex >= 0
         THEN MapSet(map, Head(entries).primaryKeyIndex, Head(entries).id)
         ELSE map)

\* Schema.toLegend: Array.from(primaryKeyIdsMap.values()), and the other
\* column ids in the order of the schema entries
toLegend(currentSchema) ==
  [primaryKeyIds |-> MapValues(PrimaryKeyIdsMap(currentSchema, << >>)),
   nonPrimaryKeyIds |->
     [i \in 1..Len(SelectSeq(currentSchema, IsNotPrimaryEntry)) |->
        SelectSeq(currentSchema, IsNotPrimaryEntry)[i].id]]

\* Schema.primaryKeyNames: the name of the entry of each primary-key id
primaryKeyNames(currentSchema) ==
  LET primaryKeyIds == toLegend(currentSchema).primaryKeyIds
  IN [i \in 1..Len(primaryKeyIds) |->
        currentSchema[CHOOSE k \in 1..Len(currentSchema) :
          /\ currentSchema[k].id = primaryKeyIds[i]
          /\ \A l \in 1..(k - 1) : currentSchema[l].id # primaryKeyIds[i]].name]

\* the values a feature file holds
RawValues == {IntegerValue(1), IntegerValue(12345), TextValue(1), NullValue}

\* the raw features: a legend id (one of them unknown) and as many values
\* as two columns of each kind can hold
RawFeatures ==
  [legendId : (DOMAIN DatasetLegends) \cup {"L0"},
   primaryKeys : {<<v>> : v \in RawValues},
   properties : {<<v>> : v \in RawValues}
                  \cup {<<v, w>> : v \in {TextValue(1)}, w \in RawValues}]

\* the first bytes of the hash of the primary-key values
ProjectionHashes == {NoHash, [i \in 1..MaxLevels |-> 255]}

InitProjection ==
  /\ InitWorkingCopy
  /\ emitter = NoEmitter
  /\ accessor = NoAccessor
  /\ walk = NoWalk
  /\ spatialIndex = NoSpatialIndex
  /\ returned = NothingReturned
  /\ kart = NoRepository
  /\ encodedId = NoEncodedId
  /\ legendDir = NoLegendDir
  /\ \E raw \in RawFeatures, currentSchema \in CurrentSchemas,
        ps \in PathStructures, hashed \in ProjectionHashes :
       /\ ps.scheme = "int" => hashed = NoHash
       /\ projection = [stage |-> "raw", raw |-> raw, schema |-> currentSchema,
                        ps |-> ps, hashed |-> hashed, object |-> NoProjected]

\* rawFeature.toObject(legends, schema, pathStructure, crss)
CallToObject ==
  /\ projection.stage = "raw"
  /\ projection' =
       [projection EXCEPT
          !.stage = "projected",
          !.object = toObject(projection.raw, DatasetLegends, projection.schema,
                              projection.ps, projection.hashed)]
  /\ UNCHANGED <<workingCopy, returned, kart, encodedId, legendDir, spatialIndex, walk, accessor, emitter>>

NextProjection == CallToObject

SpecProjection == InitProjection /\ [][NextProjection]_vars

\* schemas with two primary-key columns, their entries in several orders
TwoKeySchemas ==
  { <<SchemaEntry("c1", "id", 0), SchemaEntry("c2", "name", 1),
      SchemaEntry("c3", "age", -1)>>,
    <<SchemaEntry("c2", "name", 1), SchemaEntry("c1", "id", 0),
      SchemaEntry("c3", "age", -1)>>,
    <<SchemaEntry("c3", "age", -1), SchemaEntry("c2", "name", 1),
      SchemaEntry("c1", "id", 0)>>,
    <<SchemaEntry("c1", "id", 1), SchemaEntry("c2", "name", 0)>> }

InitKeyOrder ==
  /\ InitWorkingCopy
  /\ emitter = NoEmitter
  /\ accessor = NoAccessor
  /\ walk = NoWalk
  /\ spatialIndex = NoSpatialIndex
  /\ returned = NothingReturned
  /\ kart = NoRepository
  /\ encodedId = NoEncodedId
  /\ legendDir = NoLegendDir
  /\ \E raw \in RawFeatures, currentSchema \in TwoKeySchemas,
        ps \in PathStructures, hashed \in ProjectionHashes :
       /\ ps.scheme = "int" => hashed = NoHash
       /\ projection = [stage |-> "raw", raw |-> raw, schema |-> currentSchema,
                        ps |-> ps, hashed |-> hashed, object |-> NoProjected]

SpecKeyOrder == InitKeyOrder /\ [][NextProjection]_vars

\* ------------------------------------------------------------ spatial index

\* The model follows TableDatasetV3.selectIntersection in src/unnamed/part_003.
\* Callers are the calls that can be in progress at once, in this process or
\* in another one.  A file is "absent" or "written"; a call that builds the
\* index can be interrupted (the process is killed, or reading a feature
\* throws) at each of its steps.

Callers == {"s1", "s2"}

NothingLoaded == [fb |-> "none", ref |-> "none"]

\* Path.writeFile: the path receives the whole data in one step ("written
\* atomically (write then rename)"); a call interrupted before that step
\* leaves the path as it was
writeFile(file, data) == data

\* the test that sends selectIntersection to the build, with only the index
\* file looked at
MustBuildLooksAtIndexOnly(files) == files.fb = "absent"

\* !this.spatialIndexPath.exists || !this.spatialIndexRefPath.exists
MustBuild(files) == files.fb = "absent" \/ files.ref = "absent"

InitSpatialIndex ==
  /\ InitWorkingCopy
  /\ emitter = NoEmitter
  /\ accessor = NoAccessor
  /\ walk = NoWalk
  /\ returned = NothingReturned
  /\ kart = NoRepository
  /\ encodedId = NoEncodedId
  /\ legendDir = NoLegendDir
  /\ projection = NoProjection
  /\ spatialIndex = [stage |-> "open",
                     files |-> [fb |-> "absent", ref |-> "absent"],
                     pc |-> [c \in Callers |-> "idle"],
                     loaded |-> [c \in Callers |-> NothingLoaded],
                     selects |-> 0]

\* selectIntersection(bbox) is called: it starts a build, or loads the two
\* files
CallSelectIntersection(c) ==
  /\ spatialIndex.selects < MaxSelects
  /\ spatialIndex.pc[c] \in {"idle", "done", "interrupted"}
  /\ spatialIndex' =
       [spatialIndex EXCEPT
          !.selects = @ + 1,
          !.pc[c] = IF MustBuild(spatialIndex.files) THEN "building" ELSE "done",
          !.loaded[c] = IF MustBuild(spatialIndex.files) THEN NothingLoaded
                        ELSE spatialIndex.files]
  /\ UNCHANGED <<workingCopy, returned, kart, encodedId, legendDir, projection, walk, accessor, emitter>>

\* the features are indexed: this.spatialIndexPath.writeFile(...)
WriteIndex(c) ==
  /\ spatialIndex.pc[c] = "building"
  /\ spatialIndex' =
       [spatialIndex EXCEPT
          !.pc[c] = "wroteIndex",
          !.files.fb = writeFile(spatialIndex.files.fb, "written")]
  /\ UNCHANGED <<workingCopy, returned, kart, encodedId, legendDir, projection, walk, accessor, emitter>>

\* this.spatialIndexRefPath.writeFile(serializer.encode(eidIndex)); the call
\* then uses the index it built
WriteRef(c) ==
  /\ spatialIndex.pc[c] = "wroteIndex"
  /\ spatialIndex' =
       [spatialIndex EXCEPT
          !.pc[c] = "done",
          !.files.ref = writeFile(spatialIndex.files.ref, "written")]
  /\ UNCHANGED <<workingCopy, returned, kart, encodedId, legendDir, projection, walk, accessor, emitter>>

\* a build stops before its next step
Interrupt(c) ==
  /\ spatialIndex.pc[c] \in {"building", "wroteIndex"}
  /\ spatialIndex' = [spatialIndex EXCEPT !.pc[c] = "interrupted"]
  /\ UNCHANGED <<workingCopy, returned, kart, encodedId, legendDir, projection, walk, accessor, emitter>>

NextSpatialIndex ==
  \E c \in Callers :
    \/ CallSelectIntersection(c)
    \/ WriteIndex(c)
    \/ WriteRef(c)
    \/ Interrupt(c)

SpecSpatialIndex == InitSpatialIndex /\ [][NextSpatialIndex]_vars

\* ------------------------------------------------------ terminalBranchNodes

\* The model follows TableDatasetV3.terminalBranchNodes in
\* src/unnamed/part_003.  A node of the feature directory is a record
\* [isFile, nodes]: a file has no nodes, a directory has the sequence of its
\* nodes in the order openDirectory gives them.  A node is named by its path,
\* the sequence of its positions from the feature directory down.

FileNode == [isFile |-> TRUE, nodes |-> << >>]

DirectoryNode(nodes) == [isFile |-> FALSE, nodes |-> nodes]

\* the nodes of up to a depth, each directory with at most MaxNodes nodes
RECURSIVE NodesOfDepth(_)
NodesOfDepth(depth) ==
  IF depth = 0 THEN {FileNode, DirectoryNode(<< >>)}
  ELSE {FileNode}
         \cup UNION { {DirectoryNode(nodes) :
                         nodes \in [1..n -> NodesOfDepth(depth - 1)]} :
                      n \in 0..MaxNodes }

NoYield == [yielded |-> << >>, visited |-> << >>]

\* "for await (const node of directoryGenerator) if (node.isFile) yield node"
\* with the first node: the files of a directory, in order
RECURSIVE FilesOf(_, _, _)
FilesOf(nodes, i, path) ==
  IF i > Len(nodes) THEN << >>
  ELSE (IF nodes[i].isFile THEN <<Append(path, i)>> ELSE << >>)
         \o FilesOf(nodes, i + 1, path)

\* walk(currentPath, depth): what it yields, and the directories it was
\* called on, each with its depth and whether the walk recursed from it
RECURSIVE walkPath(_, _, _, _)
RECURSIVE WalkDirectories(_, _, _, _, _)
WalkDirectories(nodes, i, path, depth, levels) ==
  IF i > Len(nodes) THEN NoYield
  ELSE LET rest == WalkDirectories(nodes, i + 1, path, depth, levels)
       IN IF nodes[i].isFile THEN rest
          ELSE LET here == walkPath(nodes[i], Append(path, i), depth + 1, levels)
               IN [yielded |-> here.yielded \o rest.yielded,
                   visited |-> here.visited \o rest.visited]

walkPath(currentPath, path, depth, levels) ==
  LET nodes == currentPath.nodes
      isTerminalDepth == depth = levels
      Visit(recursed) == [path |-> path, depth |-> depth, recursed |-> recursed]
  IN IF nodes = << >> THEN [yielded |-> << >>, visited |-> <<Visit(FALSE)>>]
     ELSE IF nodes[1].isFile /\ isTerminalDepth
     THEN [yielded |-> FilesOf(nodes, 1, path), visited |-> <<Visit(FALSE)>>]
     ELSE IF ~nodes[1].isFile /\ ~isTerminalDepth
     THEN LET below == WalkDirectories(nodes, 1, path, depth, levels)
          IN [yielded |-> below.yielded,
              visited |-> <<Visit(TRUE)>> \o below.visited]
     ELSE [yielded |-> << >>, visited |-> <<Visit(FALSE)>>]

\* terminalBranchNodes(): nothing when the feature directory is missing
terminalBranchNodes(exists, featureDirectory, levels) ==
  IF ~exists THEN NoYield
  ELSE walkPath(featureDirectory, << >>, 0, levels)

InitWalk ==
  /\ InitWorkingCopy
  /\ emitter = NoEmitter
  /\ accessor = NoAccessor
  /\ returned = NothingReturned
  /\ kart = NoRepository
  /\ encodedId = NoEncodedId
  /\ legendDir = NoLegendDir
  /\ projection = NoProjection
  /\ spatialIndex = NoSpatialIndex
  /\ \E levels \in 1..MaxWalkLevels, exists \in BOOLEAN,
        featureDirectory \in NodesOfDepth(MaxWalkLevels) :
       /\ ~featureDirectory.isFile
       /\ walk = [stage |-> "new", exists |-> exists,
                  featureDirectory |-> featureDirectory, levels |-> levels,
                  result |-> NoYield]

\* the generator is run to its end
CallTerminalBranchNodes ==
  /\ walk.stage = "new"
  /\ walk' = [walk EXCEPT
                !.stage = "walked",
                !.result = terminalBranchNodes(walk.exists, walk.featureDirectory,
                                               walk.levels)]
  /\ UNCHANGED <<workingCopy, returned, kart, encodedId, legendDir, projection,
                 spatialIndex, accessor, emitter>>

NextWalk == CallTerminalBranchNodes

SpecWalk == InitWalk /\ [][NextWalk]_vars

\* ---------------------------------------------------------------- getInteger

\* The model follows Feature.getInteger in src/unnamed/part_005.  A value is
\* a record [type, text]: text is the sequence of the characters of a string
\* value, and the decimal digits (with a leading "-" when negative) of a
\* bigint or of an integer number.

DecimalChars == <<"0", "1", "2", "3", "4", "5", "6", "7", "8", "9">>

IsDecimalChar(char) == \E i \in 1..Len(DecimalChars) : DecimalChars[i] = char

\* String.prototype.trim
RECURSIVE TrimStart(_)
TrimStart(text) ==
  IF text # << >> /\ Head(text) = " " THEN TrimStart(Tail(text)) ELSE text

RECURSIVE TrimEnd(_)
TrimEnd(text) ==
  IF text # << >> /\ text[Len(text)] = " "
  THEN TrimEnd(SubSeq(text, 1, Len(text) - 1)) ELSE text

Trim(text) == TrimEnd(TrimStart(text))

\* /^-?\d+$/
MatchesInteger(text) ==
  LET digits == IF text # << >> /\ Head(text) = "-" THEN Tail(text) ELSE text
  IN /\ digits # << >>
     /\ \A i \in 1..Len(digits) : IsDecimalChar(digits[i])

\* /^-?\d+n$/
MatchesBigInt(text) ==
  /\ text # << >>
  /\ text[Len(text)] = "n"
  /\ MatchesInteger(SubSeq(text, 1, Len(text) - 1))

RECURSIVE StripZeros(_)
StripZeros(digits) ==
  IF Len(digits) > 1 /\ Head(digits) = "0" THEN StripZeros(Tail(digits))
  ELSE digits

\* BigInt(text): the integer in its shortest decimal form, -0 being 0
ToBigInt(text) ==
  LET negative == Head(text) = "-"
      digits == StripZeros(IF negative THEN Tail(text) ELSE text)
  IN [type |-> "bigint",
      text |-> IF negative /\ digits # <<"0">> THEN <<"-">> \o digits
               ELSE digits]

NullData == [type |-> "null", text |-> << >>]

\* getInteger(key) for a column of a data type and a value; "threw" when it
\* throws TypeMismatchError
getInteger(dataType, value) ==
  IF dataType # "integer"
  THEN [outcome |-> "threw", ok |-> FALSE, data |-> NullData]
  ELSE IF value.type \in {"undefined", "null"}
  THEN [outcome |-> "returned", ok |-> TRUE, data |-> NullData]
  ELSE IF value.type = "bigint"
  THEN [outcome |-> "returned", ok |-> TRUE, data |-> value]
  ELSE IF value.type = "number" /\ MatchesInteger(value.text)
  THEN [outcome |-> "returned", ok |-> TRUE, data |-> ToBigInt(value.text)]
  ELSE IF value.type = "string" /\ MatchesBigInt(Trim(value.text))
  THEN [outcome |-> "returned", ok |-> TRUE,
        data |-> ToBigInt(SubSeq(Trim(value.text), 1, Len(Trim(value.text)) - 1))]
  ELSE IF value.type = "string" /\ MatchesInteger(Trim(value.text))
  THEN [outcome |-> "returned", ok |-> TRUE, data |-> ToBigInt(Trim(value.text))]
  ELSE [outcome |-> "returned", ok |-> FALSE, data |-> NullData]

\* the decimal forms of integers around the signed limits of 8, 16, 32 and
\* 64 bits
IntegerTexts ==
  { <<"0">>, <<"7">>, <<"1", "2", "7">>, <<"1", "2", "8">>,
    <<"-", "1", "2", "8">>, <<"-", "1", "2", "9">>,
    <<"3", "2", "7", "6", "7">>, <<"3", "2", "7", "6", "8">>,
    <<"-", "3", "2", "7", "6", "9">>,
    <<"2", "1", "4", "7", "4", "8", "3", "6", "4", "7">>,
    <<"2", "1", "4", "7", "4", "8", "3", "6", "4", "8">>,
    <<"9", "2", "2", "3", "3", "7", "2", "0", "3", "6", "8", "5", "4", "7",
      "7", "5", "8", "0", "7">>,
    <<"9", "2", "2", "3", "3", "7", "2", "0", "3", "6", "8", "5", "4", "7",
      "7", "5", "8", "0", "8">>,
    <<"-", "9", "2", "2", "3", "3", "7", "2", "0", "3", "6", "8", "5", "4",
      "7", "7", "5", "8", "0", "9">> }

\* other strings: padded, with leading zeros, with the suffix n, not integers
OtherTexts ==
  { <<" ", "4", "2", " ">>, <<"0", "0", "7">>, <<"1", "2", "8", "n">>,
    <<"-", "0">>, <<"1", ".", "5">>, <<"a", "b", "c">>, <<"n">>, <<"-">>,
    << >> }

\* the values a feature can hold under a key
IntegerInputs ==
  { [type |-> type, text |-> text] :
      type \in {"bigint", "number", "string"}, text \in IntegerTexts }
    \cup { [type |-> "string", text |-> text] : text \in OtherTexts }
    \cup { [type |-> "number", text |-> <<"1", ".", "5">>],
           [type |-> "null", text |-> << >>],
           [type |-> "undefined", text |-> << >>] }

\* the sizes of an integer column
IntegerSizes == {8, 16, 32, 64}

InitAccessor ==
  /\ InitWorkingCopy
  /\ emitter = NoEmitter
  /\ returned = NothingReturned
  /\ kart = NoRepository
  /\ encodedId = NoEncodedId
  /\ legendDir = NoLegendDir
  /\ projection = NoProjection
  /\ spatialIndex = NoSpatialIndex
  /\ walk = NoWalk
  /\ \E dataType \in {"integer", "text"}, size \in IntegerSizes,
        value \in IntegerInputs :
       accessor = [stage |-> "new", dataType |-> dataType, size |-> size,
                   value |-> value,
                   result |-> [outcome |-> "none", ok |-> FALSE,
                               data |-> NullData]]

\* feature.getInteger(key)
CallGetInteger ==
  /\ accessor.stage = "new"
  /\ accessor' = [accessor EXCEPT
                    !.stage = "called",
                    !.result = getInteger(accessor.dataType, accessor.value)]
  /\ UNCHANGED <<workingCopy, returned, kart, encodedId, legendDir, projection,
                 spatialIndex, walk, emitter>>

NextAccessor == CallGetInteger

SpecAccessor == InitAccessor /\ [][NextAccessor]_vars

\* ------------------------------------------------- listeners that act
\* The calls of the working copy above are atomic. Here a mutation is followed
\* through its two super.emit calls one listener at a time, with listeners
\* that read the working copy and listeners that change it from inside.

\* the number of mutations made in one run, a listener's included
MaxMutations == 2
\* the number of handlers registered in one run
MaxHandlers == 2

\* what a listener does when invoked: "reads" calls get(featureId), "writes"
\* calls updateProperties or delete for a feature the working copy has
ListenerKinds == {"reads", "writes"}

\* the function Emitter keeps in the event's Set: the listener itself for on,
\* the onceWrapper closing over it for once
Handler(listener, once) == [listener |-> listener, once |-> once]

NoHandler == Handler(Undefined, FALSE)

\* a pending activation: a mutation between its emits ("call"), an emit
\* walking its copy of the listeners ("emit"), a onceWrapper whose listener
\* has been called and whose off is still to run ("off")
Frame(kind, event, call, pending, copy, handler) ==
  [kind |-> kind, event |-> event, op |-> call.op, eid |-> call.eid,
   value |-> call.value, serial |-> call.serial, pending |-> pending,
   copy |-> copy, next |-> 1, handler |-> handler]

\* the arguments of a mutation; serial numbers the mutations of the run
MutationCall(op, eid, value, serial) ==
  [op |-> op, eid |-> eid, value |-> value, serial |-> serial]

\* no listener has been invoked yet
NothingSeen ==
  [event |-> Undefined, listener |-> Undefined, op |-> Undefined,
   eid |-> Undefined, value |-> Undefined, fresh |-> FALSE,
   view |-> NoFeature]

\* a mutation that emits without having recorded its change
EnterBeforeRecording(em, result, call) ==
  [em EXCEPT !.mutations = @ + 1,
             !.stack = <<Frame("call", Undefined, call, result.emits, << >>,
                               NoHandler)>> \o @]

\* the body of a mutation after its validation: the change is recorded by
\* trackedChanges.setX, then the two super.emit calls follow
Enter(em, result, call) ==
  [em EXCEPT !.trackedChanges = result.trackedChanges,
             !.mutations = @ + 1,
             !.stack = <<Frame("call", Undefined, call, result.emits, << >>,
                               NoHandler)>> \o @]

\* the mutations of this part: delete(eid), updateProperties(eid, {a: value})
MutationResult(tc, op, eid, value) ==
  IF op = "delete" THEN Delete(featureDir, tc, eid)
  ELSE UpdateProperties(featureDir, tc, eid, [k \in {"a"} |-> value], TRUE)

MutationInputs ==
  {<<"delete", eid, Undefined>> : eid \in Eids}
  \cup {<<"updateProperties", eid, value>> : eid \in Eids, value \in {"v1", "v2"}}

\* Emitter.once loses nothing of on: the wrapper is added to the event's Set
once(ls, event, listener) == On(ls, event, Handler(listener, TRUE))

InitEmitter ==
  /\ InitWorkingCopy
  /\ returned = NothingReturned
  /\ kart = NoRepository
  /\ encodedId = NoEncodedId
  /\ legendDir = NoLegendDir
  /\ projection = NoProjection
  /\ spatialIndex = NoSpatialIndex
  /\ walk = NoWalk
  /\ accessor = NoAccessor
  /\ emitter = [stage |-> "running",
                listeners |-> [e \in Events |-> << >>],
                trackedChanges |-> << >>,
                stack |-> << >>,
                mutations |-> 0,
                registered |-> {},
                invoked |-> [h \in Events \X ListenerKinds |-> 0],
                seen |-> NothingSeen]

Top == emitter.stack[1]

UnchangedByEmitter ==
  UNCHANGED <<workingCopy, returned, kart, encodedId, legendDir, projection,
              spatialIndex, walk, accessor>>

\* on(event, listener) or once(event, listener), called between mutations
Register(event, listener, isOnce) ==
  /\ emitter.stack = << >>
  /\ Cardinality(emitter.registered) < MaxHandlers
  /\ \A o \in BOOLEAN : <<event, listener, o>> \notin emitter.registered
  /\ emitter' = [emitter EXCEPT
       !.listeners = IF isOnce THEN once(@, event, listener)
                     ELSE On(@, event, Handler(listener, FALSE)),
       !.registered = @ \cup {<<event, listener, isOnce>>}]
  /\ UnchangedByEmitter

\* a caller's mutation: it throws, or records its change and starts emitting
CallMutation(op, eid, value) ==
  /\ emitter.stack = << >>
  /\ emitter.mutations < MaxMutations
  /\ LET r == MutationResult(emitter.trackedChanges, op, eid, value)
     IN /\ r.ok
        /\ emitter' = Enter(emitter, r,
                            MutationCall(op, eid, value, emitter.mutations + 1))
  /\ UnchangedByEmitter

\* super.emit(event, data): returns false without listeners, otherwise copies
\* the event's Set with Array.from and starts the loop
StartEmit ==
  /\ emitter.stack # << >>
  /\ Top.kind = "call"
  /\ Top.pending # << >>
  /\ LET event == Head(Top.pending)
         rest == [Top EXCEPT !.pending = Tail(@)]
         call == MutationCall(Top.op, Top.eid, Top.value, Top.serial)
     IN emitter' = [emitter EXCEPT !.stack =
          IF emitter.listeners[event] = << >>
          THEN <<rest>> \o Tail(@)
          ELSE <<Frame("emit", event, call, << >>, emitter.listeners[event],
                       NoHandler), rest>> \o Tail(@)]
  /\ UnchangedByEmitter

\* one round of the loop of emit: the next function of the copy is called. A
\* onceWrapper calls its listener first and off afterwards; a listener that
\* writes makes a mutation of its own, which runs before anything else.
Invoke ==
  /\ emitter.stack # << >>
  /\ Top.kind = "emit"
  /\ Top.next <= Len(Top.copy)
  /\ LET handler == Top.copy[Top.next]
         advanced == [Top EXCEPT !.next = @ + 1]
         call == MutationCall(Top.op, Top.eid, Top.value, Top.serial)
         wrapper == IF handler.once
                    THEN <<Frame("off", Top.event, call, << >>, << >>, handler)>>
                    ELSE << >>
         called == [emitter EXCEPT
           !.invoked[<<Top.event, handler.listener>>] = @ + 1,
           !.seen = [event |-> Top.event, listener |-> handler.listener,
                     op |-> Top.op, eid |-> Top.eid, value |-> Top.value,
                     fresh |-> Top.serial = emitter.mutations,
                     view |-> Get(featureDir, emitter.trackedChanges, Top.eid)],
           !.stack = wrapper \o <<advanced>> \o Tail(@)]
     IN \/ /\ handler.listener = "reads"
           /\ emitter' = called
        \/ /\ handler.listener = "writes"
           /\ emitter.mutations >= MaxMutations
           /\ emitter' = called
        \/ /\ handler.listener = "writes"
           /\ emitter.mutations < MaxMutations
           /\ \E input \in MutationInputs :
                LET r == MutationResult(emitter.trackedChanges, input[1],
                                        input[2], input[3])
                IN /\ r.ok
                   /\ emitter' = Enter(called, r,
                        MutationCall(input[1], input[2], input[3],
                                     emitter.mutations + 1))
  /\ UnchangedByEmitter

\* the second statement of onceWrapper: this.off(event, onceWrapper)
RemoveOnce ==
  /\ emitter.stack # << >>
  /\ Top.kind = "off"
  /\ emitter' = [emitter EXCEPT
       !.listeners = Off(@, Top.event, Top.handler),
       !.stack = Tail(@)]
  /\ UnchangedByEmitter

\* the loop of emit, or the mutation after its last emit, returns
Return ==
  /\ emitter.stack # << >>
  /\ \/ Top.kind = "emit" /\ Top.next > Len(Top.copy)
     \/ Top.kind = "call" /\ Top.pending = << >>
  /\ emitter' = [emitter EXCEPT !.stack = Tail(@)]
  /\ UnchangedByEmitter

NextEmitter ==
  \/ \E event \in Events, listener \in ListenerKinds, isOnce \in BOOLEAN :
       Register(event, listener, isOnce)
  \/ \E input \in MutationInputs : CallMutation(input[1], input[2], input[3])
  \/ StartEmit
  \/ Invoke
  \/ RemoveOnce
  \/ Return

SpecEmitter == InitEmitter /\ [][NextEmitter]_vars

\* -------------------------------------------------------------- properties
Mutations == {"add", "delete", "updateProperties", "updateGeometry"}

\* the tracked change of the last call's encoded ID, and whether the call
\* changed the tracked changes (a call touches no other entry)
After == MapGet(trackedChanges, lastCall.eid)
Changed == After # lastCall.before

\* the number of tracked entries for an encoded ID
Entries(eid) == Cardinality({i \in 1..Len(trackedChanges) : trackedChanges[i].key = eid})

\* the changes the diff lists for the row an encoded ID stands for
DiffChangesFor(eid) ==
  LET d == Diff(featureDir, trackedChanges)
  IN {i \in 1..Len(d.feature) :
        d.feature[i].data[1].value = [pk |-> PkOf(eid)]}

\* the diff of an untouched working copy: { <dataset-id>: {} }
UntouchedDiff == Diff(featureDir, << >>)

\* the geometry type all features of the dataset share (the spec's dominant
\* geometry type), "undefined" when they do not share one
DominantGeometryType ==
  LET features == DatasetToGeoJSON(featureDir)
      types == {features[i].geometry.type : i \in 1..Len(features)}
  IN IF Cardinality(types) = 1 THEN CHOOSE t \in types : TRUE ELSE Undefined

\* the properties of p that are defined and differ from the row's
ChangedProperties(eid, p) ==
  Without(p, {k \in DOMAIN p :
                \/ p[k] = Undefined
                \/ k \in DOMAIN featureDir[eid].properties
                   /\ p[k] = featureDir[eid].properties[k]})

\* C1: a schema-compliant feature of the collection's geometry type whose id
\* is neither in the dataset nor tracked can be added, and is then returned by
\* has and get.
C1_AddMakesPresent ==
  ( /\ lastCall.op = "add"
    /\ CheckFeatureCompliance(lastCall.feature)
    /\ lastCall.feature.geometry.type = DominantGeometryType
    /\ ~DatasetHas(featureDir, lastCall.eid)
    /\ lastCall.before = NoChange )
  => /\ lastCall.ok
     /\ Has(featureDir, trackedChanges, lastCall.eid)
     /\ Get(featureDir, trackedChanges, lastCall.eid) = lastCall.feature

\* C2: delete on an encoded ID tracked as Insert removes the tracked entry
\* instead of recording a Delete: no change is listed for it, and when
\* nothing else is tracked the diff is that of an untouched working copy.
C2_DeleteOfInsertRemovesEntry ==
  ( /\ lastCall.op = "delete"
    /\ lastCall.ok
    /\ lastCall.before.type = "insert" )
  => /\ ~MapHas(trackedChanges, lastCall.eid)
     /\ Diff(featureDir, trackedChanges).ok => DiffChangesFor(lastCall.eid) = {}
     /\ MapKeys(trackedChanges) = {} =>
          Diff(featureDir, trackedChanges) = UntouchedDiff

C2_Witness ==
  /\ lastCall.op = "delete"
  /\ lastCall.ok
  /\ lastCall.before.type = "insert"
  /\ lastCall.eid = "N"
  /\ trackedChanges = << >>

\* C3: deleting a row of the dataset whose properties were updated leaves
\* one tracked entry for it, a Delete, and the diff lists one change for it,
\* a "--".
C3_UpdateThenDeleteIsOneDelete ==
  ( /\ lastCall.op = "delete"
    /\ lastCall.ok
    /\ lastCall.before.type = "update"
    /\ DatasetHas(featureDir, lastCall.eid) )
  => /\ After = [type |-> "delete"]
     /\ Entries(lastCall.eid) = 1
     /\ Diff(featureDir, trackedChanges).ok =>
          /\ Cardinality(DiffChangesFor(lastCall.eid)) = 1
          /\ \A i \in DiffChangesFor(lastCall.eid) :
               Diff(featureDir, trackedChanges).feature[i].op = "--"

C3_Witness ==
  /\ lastCall.op = "delete"
  /\ lastCall.ok
  /\ lastCall.before.type = "update"
  /\ "properties" \in DOMAIN lastCall.before
  /\ lastCall.eid = "X"
  /\ Diff(featureDir, trackedChanges).ok
  /\ Cardinality(DiffChangesFor("X")) = 1

\* C4: updateProperties with the value a property already has in the dataset,
\* on a row with no tracked change, records nothing: no tracked entry, and a
\* clean working copy stays clean with the diff of an untouched one.
C4_BaselineValueRecordsNothing ==
  ( /\ lastCall.op = "updateProperties"
    /\ lastCall.before = NoChange
    /\ lastCall.current # NoFeature
    /\ DOMAIN lastCall.properties # {}
    /\ \A k \in DOMAIN lastCall.properties :
         /\ k \in DOMAIN lastCall.current.properties
         /\ lastCall.properties[k] = lastCall.current.properties[k] )
  => /\ lastCall.ok
     /\ ~MapHas(trackedChanges, lastCall.eid)
     /\ ~lastCall.dirty =>
          /\ ~IsDirty(trackedChanges)
          /\ Diff(featureDir, trackedChanges) = UntouchedDiff

\* C5: updateProperties that changes a property of a row whose only tracked
\* change is a geometry update leaves one tracked entry for it, an Update
\* with that geometry and the changed properties.
C5_GeometryThenPropertiesIsOneUpdate ==
  ( /\ lastCall.op = "updateProperties"
    /\ lastCall.ok
    /\ DatasetHas(featureDir, lastCall.eid)
    /\ lastCall.before.type = "update"
    /\ DOMAIN lastCall.before = {"type", "geometry"}
    /\ DOMAIN ChangedProperties(lastCall.eid, lastCall.properties) # {} )
  => /\ Entries(lastCall.eid) = 1
     /\ After = [type |-> "update",
                 properties |-> ChangedProperties(lastCall.eid, lastCall.properties),
                 geometry |-> lastCall.before.geometry]

C5_Witness ==
  /\ lastCall.op = "updateProperties"
  /\ lastCall.ok
  /\ lastCall.eid = "X"
  /\ lastCall.before.type = "update"
  /\ DOMAIN lastCall.before = {"type", "geometry"}
  /\ DOMAIN After = {"type", "properties", "geometry"}
  /\ DOMAIN After.properties # {}


\* the event an operation emits besides the union event "feature"
SpecificEvent(op) ==
  CASE op = "add" -> "feature:added"
    [] op = "delete" -> "feature:deleted"
    [] OTHER -> "feature:updated"

\* the number of times the last call invoked a listener for an event
Invocations(event, listener) ==
  Cardinality({i \in 1..Len(delivered) :
                 delivered[i] = [event |-> event, listener |-> listener]})

\* C6: a mutation that returns and changes the tracked changes has invoked,
\* when it returns, each listener of its specific event once for that event
\* and each listener of "feature" once for that event, and nothing else.
C6_OneSpecificAndOneUnionEvent ==
  ( /\ lastCall.op \in Mutations
    /\ lastCall.ok
    /\ Changed )
  => \A event \in Events, listener \in Listeners :
       Invocations(event, listener) =
         IF /\ event \in {SpecificEvent(lastCall.op), "feature"}
            /\ listener \in SeqToSet(listeners[event])
         THEN 1 ELSE 0

C6_Witness ==
  /\ lastCall.op = "delete"
  /\ lastCall.ok
  /\ Changed
  /\ listeners["feature:deleted"] # << >>
  /\ listeners["feature"] # << >>
  /\ Len(delivered) = 2
  /\ delivered[1].event = "feature:deleted"
  /\ delivered[2].event = "feature"

\* C7: after a delete that returns, has is false and get returns undefined
\* for the encoded ID.
C7_DeletedIsAbsent ==
  (lastCall.op = "delete" /\ lastCall.ok)
  => /\ ~Has(featureDir, trackedChanges, lastCall.eid)
     /\ Get(featureDir, trackedChanges, lastCall.eid) = NoFeature

\* C8: add throws and records nothing when the encoded ID is present: in the
\* dataset and not tracked as Delete, or tracked as Insert or Update.
C8_AddOfPresentFails ==
  ( /\ lastCall.op = "add"
    /\ \/ DatasetHas(featureDir, lastCall.eid) /\ lastCall.before.type # "delete"
       \/ lastCall.before.type \in {"insert", "update"} )
  => /\ ~lastCall.ok
     /\ ~Changed

\* C9: updateGeometry on a present encoded ID returns and records an Update
\* with the geometry when its type is the type of the feature's current
\* geometry, and throws and records nothing when the type differs.
C9_GeometryTypeOfFeatureDecides ==
  ( /\ lastCall.op = "updateGeometry"
    /\ lastCall.current # NoFeature )
  => IF lastCall.geometry.type = lastCall.current.geometry.type
     THEN /\ lastCall.ok
          /\ After.type = "update"
          /\ "geometry" \in DOMAIN After
          /\ After.geometry = lastCall.geometry
     ELSE /\ ~lastCall.ok
          /\ ~Changed

\* C10: no call on the working copy changes the dataset: its feature files,
\* and so its has and get, are what they were, and its cached toGeoJSON()
\* collection is the collection of its features.
C10_BaselineUnchanged ==
  /\ featureDir = FeatureFiles
  /\ cache.cached => cache.features = DatasetToGeoJSON(FeatureFiles)

C10_Witness ==
  /\ lastCall.op = "toGeoJSON"
  /\ lastCall.ok
  /\ cache.cached
  /\ MapHas(trackedChanges, "X")
  /\ MapGet(trackedChanges, "X").type \in {"delete", "update"}
  /\ ToGeoJSON(cache.features, trackedChanges).features # cache.features

\* the tracked updates whose properties name a primary-key column
PrimaryKeyUpdates ==
  {i \in 1..Len(trackedChanges) :
     /\ trackedChanges[i].value.type = "update"
     /\ "properties" \in DOMAIN trackedChanges[i].value
     /\ \E k \in SeqToSet(primaryKeys) :
          k \in DOMAIN trackedChanges[i].value.properties}

\* C11: when a tracked update of a row of the dataset changes a primary-key
\* value, the diff lists for it a "--" with the row's keys and a "++", and
\* no "+".
C11_PrimaryKeyChangeIsDeleteAndInsert ==
  \A i \in PrimaryKeyUpdates :
     LET d == Diff(featureDir, trackedChanges)
         old == PrimaryKeyData(<< >>, featureDir[trackedChanges[i].key].ids, 1)
     IN d.ok =>
          /\ \E j \in 1..Len(d.feature) :
               d.feature[j].op = "--" /\ d.feature[j].data = old
          /\ \E j \in 1..Len(d.feature) : d.feature[j].op = "++"
          /\ d.feature[i].op # "+"

\* the keys of a change's object, in order
DataKeys(data) == [j \in 1..Len(data) |-> data[j].key]

RECURSIVE RemainingKeys(_, _, _)
\* the keys of properties that are not among the keys `first`, in order
RemainingKeys(properties, first, i) ==
  IF i > Len(PropertyKeyOrder) THEN << >>
  ELSE (IF /\ PropertyKeyOrder[i] \in DOMAIN properties
           /\ PropertyKeyOrder[i] \notin SeqToSet(first)
        THEN <<PropertyKeyOrder[i]>> ELSE << >>)
       \o RemainingKeys(properties, first, i + 1)

\* the name of the schema's primary geometry column
GeometryColumnName == SelectNames(schema, "geometry", 1)[1]

\* C12: for every tracked Insert the diff lists one "++" whose keys are the
\* primary keys in schema order, then the name of the schema's geometry
\* column, then the remaining properties.
C12_InsertKeyOrder ==
  \A i \in 1..Len(trackedChanges) :
     trackedChanges[i].value.type = "insert" =>
       LET change == DiffChange(featureDir, trackedChanges[i].key,
                                trackedChanges[i].value)
           first == primaryKeys \o <<GeometryColumnName>>
       IN /\ change.ok
          /\ change.op = "++"
          /\ DataKeys(change.data) =
               first \o RemainingKeys(trackedChanges[i].value.feature.properties,
                                      first, 1)

\* the forms of a tracked change: TrackedDelete, TrackedInsert and the
\* tracked updates (geometry, properties or both)
IsTrackedChange(change) ==
  \/ change.type = "delete" /\ DOMAIN change = {"type"}
  \/ change.type = "insert" /\ DOMAIN change = {"type", "feature"}
  \/ /\ change.type = "update"
     /\ DOMAIN change \in {{"type", "geometry"}, {"type", "properties"},
                           {"type", "geometry", "properties"}}

C14_ReturnedCollectionRejectsMutation ==
  (returned.stage = "frozen" /\ returned.attempt.op # "none")
  => returned.attempt.threw

\* C15: what toDiff returns holds, for every valid dataset name, the entry of
\* the diff of that dataset's working copy with all the changes made through
\* data.get(name), and nothing for other names.
C15_ToDiffMergesWorkingDiffs ==
  (kart.stage = "diffed" /\ kart.toDiff.ok)
  => /\ DOMAIN kart.toDiff.diffObject = ValidDatasets
     /\ \A n \in ValidDatasets :
          LET d == Diff(FeatureFiles, kart.made[n])
          IN kart.toDiff.diffObject[n] = [keys |-> d.keys, feature |-> d.feature]

C15_Witness ==
  /\ kart.stage = "diffed"
  /\ kart.toDiff.ok
  /\ kart.changes = MaxChanges
  /\ Len(kart.toDiff.diffObject["roads"].feature) = 1
  /\ kart.toDiff.diffObject["roads"].feature[1].op = "--"
  /\ kart.toDiff.diffObject["lakes"].feature # << >>
  /\ kart.toDiff.diffObject["lakes"].feature[1].op = "+"

\* the keys of the properties the toGeoJSON() view shows for an encoded ID
ViewKeys(eid) ==
  LET view == ToGeoJSON(DatasetToGeoJSON(featureDir), trackedChanges).features
  IN UNION {DOMAIN view[i].properties : i \in {j \in 1..Len(view) : view[j].id = eid}}

\* C16: after updateProperties on a present encoded ID with the value
\* undefined for a property its view has, neither get nor the toGeoJSON()
\* view shows the property.
C16_UndefinedDeletesKey ==
  ( /\ lastCall.op = "updateProperties"
    /\ lastCall.ok
    /\ lastCall.current # NoFeature )
  => \A k \in DOMAIN lastCall.properties :
       ( /\ lastCall.properties[k] = Undefined
         /\ k \in DOMAIN lastCall.current.properties )
       => /\ k \notin DOMAIN Get(featureDir, trackedChanges, lastCall.eid).properties
          /\ ToGeoJSON(DatasetToGeoJSON(featureDir), trackedChanges).ok
             => k \notin ViewKeys(lastCall.eid)

\* the primary-key tuples a scheme accepts: one integer for int, one or more
\* values for msgpack/hash
Accepted(ps, primaryKeyValues) ==
  IF ps.scheme = "int" THEN Len(primaryKeyValues) = 1
  ELSE Len(primaryKeyValues) >= 1

\* a string of n one-character folder segments, each followed by "/"
IsFolderSegments(string, n) ==
  /\ Len(string) = 2 * n
  /\ \A i \in 1..Len(string) :
       IF i % 2 = 0 THEN string[i] = "/" ELSE string[i] # "/"

\* C17: for a valid path structure and a primary-key tuple its scheme
\* accepts, getEid returns `levels` one-character folder segments, each
\* followed by "/", and then the packed file name.
C17_EidIsLevelsSegmentsThenFileName ==
  ( /\ encodedId.stage = "done"
    /\ Accepted(encodedId.ps, encodedId.primaryKeyValues) )
  => /\ encodedId.eid.ok
     /\ IsFolderSegments(encodedId.eid.folderStructure, encodedId.ps.levels)
     /\ encodedId.eid.fileName = encodedId.primaryKeyValues

\* C18: in the int scheme the last character of the (levels + 1)-character
\* encoding is not used for the folders: an integer K and K + 1, when their
\* encodings agree in all but the last character, get the same folder
\* segments.
C18_LastCharacterUnused ==
  ( /\ encodedId.stage = "done"
    /\ encodedId.ps.scheme = "int"
    /\ Len(encodedId.primaryKeyValues) = 1
    /\ encodedId.eid.ok )
  => LET K == encodedId.primaryKeyValues[1]
         levels == encodedId.ps.levels
         this == EncodedInteger(encodedId.ps, K)
         next == EncodedInteger(encodedId.ps, K + 1)
     IN ( /\ next.ok
          /\ SubSeq(this.encoded, 1, levels) = SubSeq(next.encoded, 1, levels) )
        => encodeIntegerAsFolderStructure(encodedId.ps, K + 1).folderStructure
             = encodedId.eid.folderStructure

\* the file Legend.fromFile has just read
LastLegendFile == legendDir.legendFiles[legendDir.read]

\* C19: Legend.fromFile returns a legend only when the name of the file is
\* the hex of the first 20 bytes of the SHA-256 of its bytes, and fails with
\* InvalidFileContentsError for a file whose name is anything else; every
\* legend the dataset has loaded has the hash of its contents as its id.
C19_LegendFileNameIsContentHash ==
  /\ ( legendDir.stage # "none" /\ legendDir.read > 0 )
     => /\ legendDir.last.ok
             => /\ LastLegendFile.name = hexHash(LastLegendFile.bytes)
                /\ legendDir.last.legend.id = LastLegendFile.name
        /\ ( /\ LastLegendFile.exists
             /\ LastLegendFile.name # hexHash(LastLegendFile.bytes) )
             => /\ ~legendDir.last.ok
                /\ legendDir.last.error = "InvalidFileContentsError"
  /\ legendDir.stage # "none"
     => \A i \in 1..Len(legendDir.legends) :
          legendDir.legends[i].id
            = hexHash(toBuffer(legendDir.legends[i].primaryKeyIds,
                               legendDir.legends[i].nonPrimaryKeyIds))

\* the raw value a legend and a raw feature hold for a column id, null when
\* they hold none
RawValueOf(legend, raw, id) ==
  LET InPrimary == {i \in 1..Len(legend.primaryKeyIds) :
                      legend.primaryKeyIds[i] = id /\ i <= Len(raw.primaryKeys)}
      InOthers == {i \in 1..Len(legend.nonPrimaryKeyIds) :
                     legend.nonPrimaryKeyIds[i] = id /\ i <= Len(raw.properties)}
  IN IF InPrimary # {} THEN raw.primaryKeys[CHOOSE i \in InPrimary : TRUE]
     ELSE IF InOthers # {} THEN raw.properties[CHOOSE i \in InOthers : TRUE]
     ELSE NullValue

\* the value a projection holds under a name, among ids or properties
ProjectedValue(map, name) ==
  IF MapHas(map, name) THEN map[MapIndex(map, name, 1)].value
  ELSE UndefinedValue

\* the column ids of a legend that the schema does not have, in legend order
DroppedColumns(legend, currentSchema) ==
  LET all == legend.primaryKeyIds \o legend.nonPrimaryKeyIds
      Dropped(id) == \A i \in 1..Len(currentSchema) : currentSchema[i].id # id
  IN SelectSeq(all, Dropped)

\* C20: projecting a raw feature whose legend differs from the current
\* schema gives every current column the raw value stored under its column
\* id (null when the legend has no such column), and droppedKeys lists
\* exactly the legend columns the schema does not have.
C20_ProjectionByColumnId ==
  ( /\ projection.stage = "projected"
    /\ projection.raw.legendId \in DOMAIN DatasetLegends
    /\ DatasetLegends[projection.raw.legendId] # toLegend(projection.schema) )
  => LET legend == DatasetLegends[projection.raw.legendId]
         object == projection.object
     IN /\ object.ok
        /\ \A i \in 1..Len(projection.schema) :
             LET entry == projection.schema[i]
             IN ProjectedValue(IF entry.isPrimary THEN object.ids
                               ELSE object.properties, entry.name)
                  = RawValueOf(legend, projection.raw, entry.id)
        /\ object.droppedKeys = DroppedColumns(legend, projection.schema)

\* the primaryKeyIndex of the entry of the schema with a name
IndexOfName(currentSchema, name) ==
  LET k == CHOOSE k \in 1..Len(currentSchema) : currentSchema[k].name = name
  IN currentSchema[k].primaryKeyIndex

\* a sequence of names in ascending primaryKeyIndex order
InIndexOrder(currentSchema, names) ==
  \A i, j \in 1..Len(names) :
    i < j => IndexOfName(currentSchema, names[i])
               < IndexOfName(currentSchema, names[j])

\* C21: Schema.primaryKeyNames, and the ids of a projected feature, list the
\* primary-key columns in ascending primaryKeyIndex order, whatever the order
\* of the entries of the schema.
C21_PrimaryKeysInIndexOrder ==
  projection.stage = "projected"
  => /\ InIndexOrder(projection.schema, primaryKeyNames(projection.schema))
     /\ projection.object.ok
          => InIndexOrder(projection.schema,
                          [i \in 1..Len(projection.object.ids) |->
                             projection.object.ids[i].key])

RECURSIVE NodeAt(_, _)
NodeAt(node, path) ==
  IF path = << >> THEN node ELSE NodeAt(node.nodes[Head(path)], Tail(path))

SeqMembers(sequence) == {sequence[i] : i \in 1..Len(sequence)}

\* C23: at every directory the walk is at, it recurses into the
\* subdirectories only when the first node is a directory and the depth is
\* less than levels; in every other case it yields the files of that
\* directory.
C23_WalkRecursesOrYieldsFiles ==
  walk.stage = "walked"
  => \A i \in 1..Len(walk.result.visited) :
       LET visit == walk.result.visited[i]
           nodes == NodeAt(walk.featureDirectory, visit.path).nodes
           mayRecurse == /\ nodes # << >>
                         /\ ~nodes[1].isFile
                         /\ visit.depth < walk.levels
       IN /\ visit.recursed => mayRecurse
          /\ ~mayRecurse
               => SeqMembers(FilesOf(nodes, 1, visit.path))
                    \subseteq SeqMembers(walk.result.yielded)

\* the position of a decimal digit
DigitValue(char) == CHOOSE i \in 1..Len(DecimalChars) : DecimalChars[i] = char

\* a <= b for integers >= 0 in their shortest decimal form
RECURSIVE DigitsLessEq(_, _)
DigitsLessEq(a, b) ==
  IF Len(a) # Len(b) THEN Len(a) < Len(b)
  ELSE IF a = << >> THEN TRUE
  ELSE IF Head(a) # Head(b) THEN DigitValue(Head(a)) < DigitValue(Head(b))
  ELSE DigitsLessEq(Tail(a), Tail(b))

\* 2^(size-1), in decimal
TwoToThe(size) ==
  CASE size = 8 -> <<"1", "2", "8">>
    [] size = 16 -> <<"3", "2", "7", "6", "8">>
    [] size = 32 -> <<"2", "1", "4", "7", "4", "8", "3", "6", "4", "8">>
    [] size = 64 -> <<"9", "2", "2", "3", "3", "7", "2", "0", "3", "6", "8",
                      "5", "4", "7", "7", "5", "8", "0", "8">>

\* -2^(size-1) <= data <= 2^(size-1) - 1
FitsSigned(data, size) ==
  IF Head(data.text) = "-"
  THEN DigitsLessEq(Tail(data.text), TwoToThe(size))
  ELSE DigitsLessEq(data.text, TwoToThe(size)) /\ data.text # TwoToThe(size)

\* C24: getInteger accepts a value only if it fits the signed range of the
\* declared size of the column: when it returns ok with an integer, the
\* integer is within [-2^(size-1), 2^(size-1) - 1].
C24_IntegerFitsDeclaredSize ==
  ( /\ accessor.stage = "called"
    /\ accessor.result.outcome = "returned"
    /\ accessor.result.ok
    /\ accessor.result.data # NullData )
  => FitsSigned(accessor.result.data, accessor.size)

\* C25: every tracked Delete or Update is for an encoded ID the dataset has
\* and every tracked Insert for one it does not have, so toGeoJSON() and diff
\* do not throw for an inconsistent state.
C25_TrackerAgreesWithBaseline ==
  /\ \A i \in 1..Len(trackedChanges) :
       IF trackedChanges[i].value.type = "insert"
       THEN ~DatasetHas(featureDir, trackedChanges[i].key)
       ELSE DatasetHas(featureDir, trackedChanges[i].key)
  /\ ToGeoJSON(DatasetToGeoJSON(featureDir), trackedChanges).ok
  /\ Diff(featureDir, trackedChanges).ok

\* C26: a mutation that throws leaves the tracked changes as they were and
\* invokes no listener.
C26_ThrowLeavesNoTrace ==
  (lastCall.op \in Mutations /\ ~lastCall.ok)
  => /\ ~Changed
     /\ delivered = << >>

\* a mutation threw although listeners of its events were registered and
\* changes were tracked
C26_Witness ==
  /\ lastCall.op \in Mutations
  /\ ~lastCall.ok
  /\ trackedChanges # << >>
  /\ listeners["feature"] # << >>

\* C28: the tracker holds no empty Update: every Update has a geometry or at
\* least one property, and each of its properties differs from the value the
\* dataset has for it.
C28_NoEmptyUpdate ==
  \A i \in 1..Len(trackedChanges) :
    LET eid == trackedChanges[i].key
        change == trackedChanges[i].value
    IN change.type = "update"
       => /\ \/ "geometry" \in DOMAIN change
             \/ /\ "properties" \in DOMAIN change
                /\ DOMAIN change.properties # {}
          /\ ("properties" \in DOMAIN change /\ DatasetHas(featureDir, eid))
               => \A k \in DOMAIN change.properties :
                    k \in DOMAIN featureDir[eid].properties
                    => change.properties[k] # featureDir[eid].properties[k]

\* the feature toGeoJSON() has for an encoded ID, NoFeature when it has none
FeatureIn(features, eid) ==
  IF FeatureIndex(features, eid, 1) = 0 THEN NoFeature
  ELSE features[FeatureIndex(features, eid, 1)]

\* C29: the two views agree: toGeoJSON() returns, and has a feature for an
\* encoded ID exactly when has is true, with the geometry and properties get
\* returns.
C29_ViewsAgree ==
  LET view == ToGeoJSON(DatasetToGeoJSON(featureDir), trackedChanges)
  IN /\ view.ok
     /\ \A eid \in Eids :
          LET feature == FeatureIn(view.features, eid)
          IN /\ (feature # NoFeature) <=> Has(featureDir, trackedChanges, eid)
             /\ feature # NoFeature
                  => /\ feature.geometry
                          = Get(featureDir, trackedChanges, eid).geometry
                     /\ feature.properties
                          = Get(featureDir, trackedChanges, eid).properties

\* C27: a listener invoked for a mutation of an encoded ID finds the change
\* in the working copy: get gives nothing after delete and the new value after
\* updateProperties, for the specific event and for the union event.
C27_ListenerSeesChange ==
  emitter.stage = "running" /\ emitter.seen.event # Undefined
  => /\ emitter.seen.op = "delete" => emitter.seen.view = NoFeature
     /\ emitter.seen.op = "updateProperties"
          => /\ emitter.seen.view # NoFeature
             /\ emitter.seen.view.properties["a"] = emitter.seen.value

\* C27 for a listener invoked while the mutation it is told about is the last
\* one made
C27_ListenerSeesLastChange ==
  ( /\ emitter.stage = "running"
    /\ emitter.seen.event # Undefined
    /\ emitter.seen.fresh )
  => /\ emitter.seen.op = "delete" => emitter.seen.view = NoFeature
     /\ emitter.seen.op = "updateProperties"
          => /\ emitter.seen.view # NoFeature
             /\ emitter.seen.view.properties["a"] = emitter.seen.value

\* a listener of the union event has been invoked for an updateProperties that
\* is the last mutation made
C27_Witness ==
  /\ emitter.stage = "running"
  /\ emitter.seen.event = "feature"
  /\ emitter.seen.op = "updateProperties"
  /\ emitter.seen.value = "v2"
  /\ emitter.seen.fresh

\* C30: a listener registered with once for an event is invoked at most once
\* for that event, also when it makes a mutation that emits the event again.
C30_OnceInvokedAtMostOnce ==
  emitter.stage = "running"
  => \A event \in Events, listener \in ListenerKinds :
       <<event, listener, TRUE>> \in emitter.registered
       => emitter.invoked[<<event, listener>>] <= 1

====
